---- MODULE Spec2Model ----
(***************************************************************************)
(* Predicates of the sweepline Voronoi construction                        *)
(* (src/src/voronoi_predicate.rs): orientation, event ordering, the        *)
(* distance predicate and beach-line node ordering, as pure functions      *)
(* applied to inputs drawn from bounded sets.                              *)
(*                                                                         *)
(* Integers keep their width: I1 is a signed integer of I1Bits bits and    *)
(* I2 the widened signed integer of 2 * I1Bits bits (i32 / i64 in          *)
(* src/src/main.rs, scaled down so that the products stay inside the       *)
(* integers of the model checker).  An arithmetic step that leaves the     *)
(* width wraps (release build) and is recorded in an overflow flag (a      *)
(* debug build aborts there).                                              *)
(***************************************************************************)
EXTENDS Integers, Sequences, FiniteSets, TLC

VARIABLES pc, in, out

vars == <<pc, in, out>>

(***************************************************************************)
(* Bounds                                                                  *)
(***************************************************************************)
I1Bits == 3
MaxCoord == 1
MaxXY == 2
MaxNodePoint == 3
MaxFormPoint == 5
MaxFilterPoint == 2
MaxInverse == 3

(***************************************************************************)
(* Fixed-width integers                                                    *)
(***************************************************************************)
I2Bits == 2 * I1Bits

Pow2(n) == 2 ^ n

MinI1 == -Pow2(I1Bits - 1)
MaxI1 == Pow2(I1Bits - 1) - 1
MinI2 == -Pow2(I2Bits - 1)
MaxI2 == Pow2(I2Bits - 1) - 1

InI2(v) == MinI2 <= v /\ v <= MaxI2

\* two's complement wrap of a mathematical integer into I2
WrapI2(v) == ((v - MinI2) % Pow2(I2Bits)) + MinI2

\* a value of I2 together with the overflow flag of the steps that made it
IV(v, o) == [v |-> v, o |-> o]

i1_to_i2(x) == IV(x, FALSE)

SubI2(a, b) == IV(WrapI2(a.v - b.v), a.o \/ b.o \/ ~InI2(a.v - b.v))
AddI2(a, b) == IV(WrapI2(a.v + b.v), a.o \/ b.o \/ ~InI2(a.v + b.v))
MulI2(a, b) == IV(WrapI2(a.v * b.v), a.o \/ b.o \/ ~InI2(a.v * b.v))
NegI2(a) == IV(WrapI2(-a.v), a.o \/ ~InI2(-a.v))
AbsI2(a) == IF a.v < 0 THEN NegI2(a) ELSE a

(***************************************************************************)
(* The float a widened integer is cast to: sign bit and magnitude.  The    *)
(* cast keeps the sign and maps only 0 to zero; negation flips the sign    *)
(* bit, so the negation of zero is the negative zero.                      *)
(***************************************************************************)
CastF(a) == [neg |-> a.v < 0, mag |-> IF a.v < 0 THEN -a.v ELSE a.v, o |-> a.o]
NegF(f) == [neg |-> ~f.neg, mag |-> f.mag, o |-> f.o]

Xor(a, b) == a # b

\* mutant: the mixed-sign branch returns l + r without the leading minus
robust_cross_product_f_m1(a1_, b1_, a2_, b2_) ==
    LET a1 == AbsI2(a1_)
        b1 == AbsI2(b1_)
        a2 == AbsI2(a2_)
        b2 == AbsI2(b2_)
        l == MulI2(a1, b2)
        r == MulI2(b1, a2)
    IN  IF Xor(a1_.v < 0, b2_.v < 0)
        THEN IF Xor(a2_.v < 0, b1_.v < 0)
             THEN IF l.v > r.v THEN NegF(CastF(SubI2(l, r)))
                  ELSE CastF(SubI2(r, l))
             ELSE CastF(AddI2(l, r))
        ELSE IF Xor(a2_.v < 0, b1_.v < 0)
             THEN CastF(AddI2(l, r))
             ELSE IF l.v < r.v THEN NegF(CastF(SubI2(r, l)))
                  ELSE CastF(SubI2(l, r))

\* a1 * b2 - b1 * a2 from the absolute values, branch by sign
robust_cross_product_f(a1_, b1_, a2_, b2_) ==
    LET a1 == AbsI2(a1_)
        b1 == AbsI2(b1_)
        a2 == AbsI2(a2_)
        b2 == AbsI2(b2_)
        l == MulI2(a1, b2)
        r == MulI2(b1, a2)
    IN  IF Xor(a1_.v < 0, b2_.v < 0)
        THEN IF Xor(a2_.v < 0, b1_.v < 0)
             THEN IF l.v > r.v THEN NegF(CastF(SubI2(l, r)))
                  ELSE CastF(SubI2(r, l))
             ELSE NegF(CastF(AddI2(l, r)))
        ELSE IF Xor(a2_.v < 0, b1_.v < 0)
             THEN CastF(AddI2(l, r))
             ELSE IF l.v < r.v THEN NegF(CastF(SubI2(r, l)))
                  ELSE CastF(SubI2(l, r))

robust_cross_product_2i(a1, b1, a2, b2) == robust_cross_product_f(a1, b1, a2, b2)

(***************************************************************************)
(* Orientation                                                             *)
(***************************************************************************)
eval_bf(value) ==
    IF value.mag = 0 THEN "COLLINEAR"
    ELSE IF value.neg THEN "RIGHT" ELSE "LEFT"

\* orientation with the overflow flag of the computation
eval_3o(point1, point2, point3) ==
    LET dx1 == SubI2(i1_to_i2(point1.x), i1_to_i2(point2.x))
        dx2 == SubI2(i1_to_i2(point2.x), i1_to_i2(point3.x))
        dy1 == SubI2(i1_to_i2(point1.y), i1_to_i2(point2.y))
        dy2 == SubI2(i1_to_i2(point2.y), i1_to_i2(point3.y))
        cp == robust_cross_product_2i(dx1, dy1, dx2, dy2)
    IN  [val |-> eval_bf(cp), ovf |-> cp.o]

eval_3(point1, point2, point3) == eval_3o(point1, point2, point3).val

Point(x, y) == [x |-> x, y |-> y]

(***************************************************************************)
(* Specification of the orientation test: three points, then eval_3.       *)
(***************************************************************************)
OrientCoords == (-MaxCoord .. MaxCoord) \cup {MinI1, MaxI1}
OrientPoints == {Point(x, y) : x \in OrientCoords, y \in OrientCoords}

InitOrient ==
    /\ pc = "input"
    /\ in \in OrientPoints \X OrientPoints \X OrientPoints
    /\ out = [kind |-> "none"]

\* a debug build aborts on overflow, a release build goes on with the wrapped value
Eval3 ==
    /\ pc = "input"
    /\ LET r == eval_3o(in[1], in[2], in[3])
       IN  \E debug \in BOOLEAN :
             out' = [kind |-> "eval_3",
                     panic |-> r.ovf /\ debug,
                     ovf |-> r.ovf,
                     val |-> IF r.ovf /\ debug THEN "PANIC" ELSE r.val]
    /\ pc' = "eval_3"
    /\ in' = in

NextOrient == Eval3

SpecOrient == InitOrient /\ [][NextOrient]_vars

\* the determinant (qx-px)(ry-qy) - (qy-py)(rx-qx) over the mathematical integers
Det(p, q, r) == (q.x - p.x) * (r.y - q.y) - (q.y - p.y) * (r.x - q.x)

SignName(d) == IF d > 0 THEN "LEFT" ELSE IF d = 0 THEN "COLLINEAR" ELSE "RIGHT"

\* C1: when no intermediate overflows, eval_3(p, q, r) is LEFT for a positive
\* determinant (qx-px)(ry-qy) - (qy-py)(rx-qx), COLLINEAR for zero and RIGHT
\* for a negative one.
C1_OrientationSign ==
    (pc = "eval_3" /\ ~out.ovf) => out.val = SignName(Det(in[1], in[2], in[3]))

\* the branch with a1 < 0 <= b2 and a2, b1 of equal sign has acted: -(l + r)
C1_Witness ==
    /\ pc = "eval_3"
    /\ ~out.ovf
    /\ in[1].x < in[2].x
    /\ in[2].y > in[3].y
    /\ in[2].x > in[3].x
    /\ in[1].y > in[2].y
    /\ out.val = "RIGHT"

\* C2: for all points of I1 the sign is exact and nothing overflows I2.
C2_NoOverflowExact ==
    pc = "eval_3" =>
        /\ ~out.ovf
        /\ out.val = SignName(Det(in[1], in[2], in[3]))

(***************************************************************************)
(* Site events (voronoi_siteevent): two end points, equal for a point      *)
(* site, the index given by the pre-sort, and the inverse flag.  x0, y0    *)
(* read point0 and x1, y1 read point1; inverse() swaps the end points and  *)
(* toggles the flag.                                                       *)
(***************************************************************************)
Site(p0, p1, idx, inv) ==
    [point0 |-> p0, point1 |-> p1, sorted_index |-> idx, is_inverse |-> inv]

new_3(a, b, index) == Site(a, b, index, FALSE)
new_1(a, index) == Site(a, a, index, FALSE)
\* mutant: the flag is toggled, the end points stay
inverse_m1(s) == Site(s.point0, s.point1, s.sorted_index, ~s.is_inverse)

inverse(s) == Site(s.point1, s.point0, s.sorted_index, ~s.is_inverse)

is_segment(s) == s.point0 # s.point1
is_inverse(s) == s.is_inverse
sorted_index(s) == s.sorted_index
point0(s) == s.point0
point1(s) == s.point1
x0(s) == s.point0.x
y0(s) == s.point0.y
x1(s) == s.point1.x
y1(s) == s.point1.y

is_vertical_2(p1, p2) == p1.x = p2.x
is_vertical_1(site) == is_vertical_2(point0(site), point1(site))

\* mutant: at equal x the y are compared with <=
point_comparison_predicate_m1(lhs, rhs) ==
    IF lhs.x = rhs.x THEN lhs.y <= rhs.y ELSE lhs.x < rhs.x

point_comparison_predicate(lhs, rhs) ==
    IF lhs.x = rhs.x THEN lhs.y < rhs.y ELSE lhs.x < rhs.x

(***************************************************************************)
(* Event ordering                                                          *)
(***************************************************************************)
\* mutant: a point and a vertical segment at equal x0 are compared with <
event_comparison_predicate_bii_m1(lhs, rhs) ==
    IF x0(lhs) # x0(rhs) THEN x0(lhs) < x0(rhs)
    ELSE IF ~is_segment(lhs)
    THEN IF ~is_segment(rhs) THEN y0(lhs) < y0(rhs)
         ELSE IF is_vertical_2(rhs.point0, rhs.point1) THEN y0(lhs) < y0(rhs)
         ELSE TRUE
    ELSE IF is_vertical_2(rhs.point0, rhs.point1)
         THEN IF is_vertical_2(lhs.point0, lhs.point1) THEN y0(lhs) < y0(rhs)
              ELSE FALSE
         ELSE IF is_vertical_2(lhs.point0, lhs.point1) THEN TRUE
         ELSE IF y0(lhs) # y0(rhs) THEN y0(lhs) < y0(rhs)
         ELSE eval_3(point1(lhs), point0(lhs), point1(rhs)) = "LEFT"

\* mutant: two non-vertical segments from one point are ordered by RIGHT
event_comparison_predicate_bii_m2(lhs, rhs) ==
    IF x0(lhs) # x0(rhs) THEN x0(lhs) < x0(rhs)
    ELSE IF ~is_segment(lhs)
    THEN IF ~is_segment(rhs) THEN y0(lhs) < y0(rhs)
         ELSE IF is_vertical_2(rhs.point0, rhs.point1) THEN y0(lhs) <= y0(rhs)
         ELSE TRUE
    ELSE IF is_vertical_2(rhs.point0, rhs.point1)
         THEN IF is_vertical_2(lhs.point0, lhs.point1) THEN y0(lhs) < y0(rhs)
              ELSE FALSE
         ELSE IF is_vertical_2(lhs.point0, lhs.point1) THEN TRUE
         ELSE IF y0(lhs) # y0(rhs) THEN y0(lhs) < y0(rhs)
         ELSE eval_3(point1(lhs), point0(lhs), point1(rhs)) = "RIGHT"

\* mutant: the x0 comparison is taken the wrong way round
event_comparison_predicate_bii_m3(lhs, rhs) ==
    IF x0(lhs) # x0(rhs) THEN x0(lhs) > x0(rhs)
    ELSE IF ~is_segment(lhs)
    THEN IF ~is_segment(rhs) THEN y0(lhs) < y0(rhs)
         ELSE IF is_vertical_2(rhs.point0, rhs.point1) THEN y0(lhs) <= y0(rhs)
         ELSE TRUE
    ELSE IF is_vertical_2(rhs.point0, rhs.point1)
         THEN IF is_vertical_2(lhs.point0, lhs.point1) THEN y0(lhs) < y0(rhs)
              ELSE FALSE
         ELSE IF is_vertical_2(lhs.point0, lhs.point1) THEN TRUE
         ELSE IF y0(lhs) # y0(rhs) THEN y0(lhs) < y0(rhs)
         ELSE eval_3(point1(lhs), point0(lhs), point1(rhs)) = "LEFT"

event_comparison_predicate_bii(lhs, rhs) ==
    IF x0(lhs) # x0(rhs) THEN x0(lhs) < x0(rhs)
    ELSE IF ~is_segment(lhs)
    THEN IF ~is_segment(rhs) THEN y0(lhs) < y0(rhs)
         ELSE IF is_vertical_2(rhs.point0, rhs.point1) THEN y0(lhs) <= y0(rhs)
         ELSE TRUE
    ELSE IF is_vertical_2(rhs.point0, rhs.point1)
         THEN IF is_vertical_2(lhs.point0, lhs.point1) THEN y0(lhs) < y0(rhs)
              ELSE FALSE
         ELSE IF is_vertical_2(lhs.point0, lhs.point1) THEN TRUE
         ELSE IF y0(lhs) # y0(rhs) THEN y0(lhs) < y0(rhs)
         ELSE eval_3(point1(lhs), point0(lhs), point1(rhs)) = "LEFT"

event_comparison_predicate_ii(lhs, rhs) ==
    IF event_comparison_predicate_bii(lhs, rhs) THEN "Less" ELSE "Greater"

(***************************************************************************)
(* Specification of the event order: two site events, then the comparator  *)
(* applied to the pair in both orders, as a sort does.                     *)
(***************************************************************************)
XYPoints == {Point(x, y) : x \in 0 .. MaxXY, y \in 0 .. MaxXY}

\* point sites, segment sites (point0 before point1) and their inverses
EventSites ==
    {Site(p, q, 0, ~point_comparison_predicate(p, q) /\ p # q) :
        p \in XYPoints, q \in XYPoints}

InitEvent ==
    /\ pc = "input"
    /\ in \in EventSites \X EventSites
    /\ out = [kind |-> "none"]

EventCompare ==
    /\ pc = "input"
    /\ out' = [kind |-> "ii",
               lt |-> event_comparison_predicate_bii(in[1], in[2]),
               gt |-> event_comparison_predicate_bii(in[2], in[1]),
               ord |-> event_comparison_predicate_ii(in[1], in[2]),
               rev |-> event_comparison_predicate_ii(in[2], in[1])]
    /\ pc' = "ii"
    /\ in' = in

NextEvent == EventCompare

SpecEvent == InitEvent /\ [][NextEvent]_vars

bii(a, b) == event_comparison_predicate_bii(a, b)

\* a is before b or b before a, never both, and a is not before itself
StrictPair(a, b) ==
    /\ ~bii(a, a)
    /\ a # b => (bii(a, b) # bii(b, a))

\* C3 as stated: on all site events (points, segments, inverse segments) the
\* event order is irreflexive, orders every two distinct events exactly one
\* way, is transitive, and ii(a, b) is the reverse of ii(b, a).
C3_TotalOrderAllSites ==
    pc = "ii" =>
        /\ StrictPair(in[1], in[2])
        /\ in[1] # in[2] => out.ord # out.rev
        /\ \A c \in EventSites :
             (out.lt /\ bii(in[2], c)) => bii(in[1], c)

\* two segments that leave the same point0 along the same line
SameStartCollinear(a, b) ==
    /\ is_segment(a) /\ is_segment(b)
    /\ point0(a) = point0(b)
    /\ Det(point1(a), point0(a), point1(b)) = 0

\* site events as the pre-sort holds them: none inverse, no two segments
\* leaving one point along one line
Sortable(a, b) ==
    /\ ~is_inverse(a) /\ ~is_inverse(b)
    /\ a # b => ~SameStartCollinear(a, b)

\* C3 (amended): on site events that are not inverse and of which no two
\* segments leave the same point0 along the same line, the event order is
\* irreflexive, orders every two distinct events exactly one way, is
\* transitive, and ii(a, b) is the reverse of ii(b, a).
C3_TotalOrderSortedSites ==
    (pc = "ii" /\ Sortable(in[1], in[2])) =>
        /\ StrictPair(in[1], in[2])
        /\ in[1] # in[2] => out.ord # out.rev
        /\ \A c \in EventSites :
             (Sortable(in[1], c) /\ Sortable(in[2], c) /\ out.lt /\ bii(in[2], c))
                 => bii(in[1], c)

\* two non-vertical segments from one point, ordered by the orientation test
C3_Witness ==
    /\ pc = "ii"
    /\ Sortable(in[1], in[2])
    /\ is_segment(in[1]) /\ is_segment(in[2])
    /\ ~is_vertical_1(in[1]) /\ ~is_vertical_1(in[2])
    /\ point0(in[1]) = point0(in[2])
    /\ out.lt /\ ~out.gt
    /\ out.ord = "Less" /\ out.rev = "Greater"

Min2(a, b) == IF a < b THEN a ELSE b

\* x of the leftmost point of the feature
LeftmostX(s) == Min2(s.point0.x, s.point1.x)

\* C5 as stated: for any two site events, inverse ones included, whose
\* leftmost x differ, bii(lhs, rhs) is true exactly when the leftmost x of
\* lhs is the smaller one.
C5_LeftmostXAllSites ==
    (pc = "ii" /\ LeftmostX(in[1]) # LeftmostX(in[2])) =>
        (out.lt <=> LeftmostX(in[1]) < LeftmostX(in[2]))

\* C5 (amended): bii compares x0, the x of point0: when x0 differ, bii(lhs,
\* rhs) is true exactly when x0 of lhs is the smaller one; x0 is the leftmost
\* x of a site that is not inverse, so for two such sites whose leftmost x
\* differ bii is true exactly when the leftmost x of lhs is the smaller.
C5_ComparesX0 ==
    pc = "ii" =>
        /\ x0(in[1]) # x0(in[2]) => (out.lt <=> x0(in[1]) < x0(in[2]))
        /\ (~is_inverse(in[1]) /\ ~is_inverse(in[2])
              /\ LeftmostX(in[1]) # LeftmostX(in[2]))
            => (out.lt <=> LeftmostX(in[1]) < LeftmostX(in[2]))

\* an inverse segment whose left end is left of a point and whose x0 is right of it
C5_Witness ==
    /\ pc = "ii"
    /\ is_inverse(in[1]) /\ ~is_segment(in[2])
    /\ LeftmostX(in[1]) < x0(in[2])
    /\ x0(in[2]) < x0(in[1])
    /\ ~out.lt /\ out.gt

\* for a pair of one point site and one segment site: the point, the segment
PointOf(a, b) == IF is_segment(a) THEN b ELSE a
SegmentOf(a, b) == IF is_segment(a) THEN a ELSE b

OneSegmentEqualX0(a, b) == is_segment(a) # is_segment(b) /\ x0(a) = x0(b)

\* C6 as stated: with exactly one segment and equal x0 the point site wins,
\* unless the segment is vertical and starts at the point, and then the tie
\* goes to the point as well (taken on the sites that are not inverse).
C6_PointWins ==
    (pc = "ii" /\ OneSegmentEqualX0(in[1], in[2])
       /\ ~is_inverse(in[1]) /\ ~is_inverse(in[2])) =>
        LET pt == PointOf(in[1], in[2])
            sg == SegmentOf(in[1], in[2])
        IN  bii(pt, sg) /\ ~bii(sg, pt)

\* C6 (amended): with exactly one segment and equal x0, the point site wins
\* if the segment is not vertical; if the segment is vertical the two are
\* ordered by y0, bii(point, segment) being point.y0 <= segment.y0 and
\* bii(segment, point) being segment.y0 < point.y0, so that the point wins
\* the tie when the vertical segment starts at the point.
C6_PointWinsUnlessVerticalBelow ==
    (pc = "ii" /\ OneSegmentEqualX0(in[1], in[2])) =>
        LET pt == PointOf(in[1], in[2])
            sg == SegmentOf(in[1], in[2])
            ptFirst == IF is_segment(in[1]) THEN out.gt ELSE out.lt
            sgFirst == IF is_segment(in[1]) THEN out.lt ELSE out.gt
        IN  IF is_vertical_1(sg)
            THEN /\ ptFirst <=> y0(pt) <= y0(sg)
                 /\ sgFirst <=> y0(sg) < y0(pt)
            ELSE ptFirst /\ ~sgFirst

\* a point at the start of a vertical segment: the tie goes to the point
C6_Witness ==
    /\ pc = "ii"
    /\ ~is_segment(in[1]) /\ is_segment(in[2])
    /\ is_vertical_1(in[2])
    /\ point0(in[1]) = point0(in[2])
    /\ out.lt /\ ~out.gt

\* C7: two segments with equal x0: a vertical one is before a non-vertical
\* one, two vertical ones are ordered by y0, two non-vertical ones by y0 and,
\* at equal y0, lhs is first exactly when Orientation(lhs.p1, lhs.p0, rhs.p1)
\* is LEFT.
C7_SegmentSegment ==
    (pc = "ii" /\ is_segment(in[1]) /\ is_segment(in[2]) /\ x0(in[1]) = x0(in[2])) =>
        LET l == in[1]
            r == in[2]
        IN  /\ (is_vertical_1(l) /\ ~is_vertical_1(r)) => (out.lt /\ ~out.gt)
            /\ (is_vertical_1(l) /\ is_vertical_1(r)) => (out.lt <=> y0(l) < y0(r))
            /\ (~is_vertical_1(l) /\ ~is_vertical_1(r) /\ y0(l) # y0(r))
                 => (out.lt <=> y0(l) < y0(r))
            /\ (~is_vertical_1(l) /\ ~is_vertical_1(r) /\ y0(l) = y0(r))
                 => (out.lt <=> SignName(Det(point1(l), point0(l), point1(r))) = "LEFT")

\* two non-vertical segments from one point, lhs first by the orientation test
C7_Witness ==
    /\ pc = "ii"
    /\ ~is_inverse(in[1]) /\ ~is_inverse(in[2])
    /\ is_segment(in[1]) /\ is_segment(in[2])
    /\ ~is_vertical_1(in[1]) /\ ~is_vertical_1(in[2])
    /\ point0(in[1]) = point0(in[2])
    /\ SignName(Det(point1(in[1]), point0(in[1]), point1(in[2]))) = "LEFT"
    /\ out.lt

(***************************************************************************)
(* Site event against circle event.  A float is held as its position in    *)
(* the order of the floats (what the ULP comparison subtracts); the model  *)
(* keeps to the binade [4, 8), where consecutive floats are                *)
(* 2^(2 - F2MantBits) apart.                                               *)
(***************************************************************************)
ULPS == 64
ULPSX2 == 128
F2Bytes == 8
F2MantBits == 10
UlpSlack == 2

\* mutant: the two thresholds are taken the wrong way round
ulps_m1(sizeOfF2) == IF sizeOfF2 > 4 THEN ULPS ELSE ULPSX2

ulps(sizeOfF2) == IF sizeOfF2 > 4 THEN ULPSX2 ELSE ULPS

FloatsPerUnit == Pow2(F2MantBits - 2)

\* the float of an integer of the binade, as its position
i1_to_f64(x) == x * FloatsPerUnit

\* Equal when the two floats are at most max_ulps floats apart
ulp_comparison(a, b, max_ulps) ==
    IF a > b
    THEN IF a - b <= max_ulps THEN "Equal" ELSE "Greater"
    ELSE IF b - a <= max_ulps THEN "Equal" ELSE "Less"

CircleEvent(lx) == [lower_x |-> lx]
lower_x(c) == c.lower_x

\* mutant: the site is first unless it is more than the tolerance to the right
event_comparison_predicate_bif_m1(lhs, rhs) ==
    LET l == i1_to_f64(x0(lhs))
        r == lower_x(rhs)
    IN  ulp_comparison(l, r, ulps(F2Bytes)) # "Greater"

event_comparison_predicate_bif(lhs, rhs) ==
    LET l == i1_to_f64(x0(lhs))
        r == lower_x(rhs)
    IN  ulp_comparison(l, r, ulps(F2Bytes)) = "Less"

event_comparison_predicate_if(lhs, rhs) ==
    IF event_comparison_predicate_bif(lhs, rhs) THEN "Less" ELSE "Greater"

BinadeInts == 4 .. 7

\* lower_x of the circle events: around each integer, up to the tolerance and
\* a little beyond on either side
CircleLowerXs ==
    {i1_to_f64(x) + d : x \in BinadeInts,
                        d \in -(ULPSX2 + UlpSlack) .. (ULPSX2 + UlpSlack)}

InitCircle ==
    /\ pc = "input"
    /\ in \in {new_1(Point(x, 0), 0) : x \in BinadeInts}
                \X {CircleEvent(lx) : lx \in CircleLowerXs}
    /\ out = [kind |-> "none"]

SiteCircleCompare ==
    /\ pc = "input"
    /\ out' = [kind |-> "if",
               lt |-> event_comparison_predicate_bif(in[1], in[2]),
               ord |-> event_comparison_predicate_if(in[1], in[2])]
    /\ pc' = "if"
    /\ in' = in

NextCircle == SiteCircleCompare

SpecCircle == InitCircle /\ [][NextCircle]_vars

\* distance in floats between the site's x0 and the circle's lower_x
UlpDistance(site, circle) ==
    LET l == i1_to_f64(x0(site))
        r == lower_x(circle)
    IN  IF l > r THEN l - r ELSE r - l

WithinUlps(site, circle) == UlpDistance(site, circle) <= ulps(F2Bytes)

\* C4 as stated: a site whose x0 equals the circle's lower_x within the ULPS
\* tolerance is ordered before the circle (Less), as is a site whose x0 is
\* smaller.
C4_SiteFirstOnTie ==
    (pc = "if" /\ (WithinUlps(in[1], in[2]) \/ i1_to_f64(x0(in[1])) < lower_x(in[2])))
        => out.ord = "Less"

\* C4 (amended): the site is ordered before the circle (Less) exactly when
\* its x0 is smaller than the circle's lower_x by more than the ULPS
\* tolerance; when the two are equal within the tolerance the result is
\* Greater, the circle event first.
C4_CircleFirstOnTie ==
    pc = "if" =>
        /\ out.ord = "Less" <=>
             (i1_to_f64(x0(in[1])) < lower_x(in[2]) /\ ~WithinUlps(in[1], in[2]))
        /\ WithinUlps(in[1], in[2]) => out.ord = "Greater"

\* a site a few floats left of lower_x, inside the tolerance
C4_Witness ==
    /\ pc = "if"
    /\ i1_to_f64(x0(in[1])) < lower_x(in[2])
    /\ WithinUlps(in[1], in[2])
    /\ out.ord = "Greater"

(***************************************************************************)
(* Distances to the arcs.  The floats of the distance predicate are held   *)
(* as the real number they round: (p + q * sqrt(m)) / d with integers p,   *)
(* q, m >= 0, d > 0, or as the infinity / NaN a division by zero gives.    *)
(* Two distances whose real values differ are far more than the rounding   *)
(* error apart at the coordinates of the model, so the float comparison    *)
(* is the comparison of the real values; two distances of equal real value *)
(* compare as their roundings fall, which the input tie decides unless     *)
(* both are correctly rounded (cr), when they are the same float.          *)
(***************************************************************************)
Abs(v) == IF v < 0 THEN -v ELSE v
Sgn(v) == IF v < 0 THEN -1 ELSE IF v = 0 THEN 0 ELSE 1

RECURSIVE CmpFrac(_, _, _, _)
\* sign of a / c - d / b for a, d >= 0 and c, b > 0, without forming a * b
CmpFrac(a, c, d, b) ==
    LET q1 == a \div c
        q2 == d \div b
        r1 == a % c
        r2 == d % b
    IN  IF q1 # q2 THEN (IF q1 < q2 THEN -1 ELSE 1)
        ELSE IF r1 = 0 /\ r2 = 0 THEN 0
        ELSE IF r1 = 0 THEN -1
        ELSE IF r2 = 0 THEN 1
        ELSE CmpFrac(b, r2, c, r1)

\* sign of u + v * sqrt(w)
SignSqrt1(u, v, w) ==
    IF v = 0 \/ w = 0 THEN Sgn(u)
    ELSE IF u = 0 \/ Sgn(u) = Sgn(v) THEN Sgn(v)
    ELSE Sgn(u) * CmpFrac(Abs(u), Abs(v), Abs(v) * w, Abs(u))

\* sign of a1 * sqrt(m1) + a2 * sqrt(m2)
SignSqrt2(a1, m1, a2, m2) ==
    LET s1 == IF m1 = 0 THEN 0 ELSE Sgn(a1)
        s2 == IF m2 = 0 THEN 0 ELSE Sgn(a2)
    IN  IF s1 = 0 THEN s2
        ELSE IF s2 = 0 \/ s1 = s2 THEN s1
        ELSE s1 * CmpFrac(Abs(a1) * m1, Abs(a2), Abs(a2) * m2, Abs(a1))

\* sign of g + a1 * sqrt(m1) + a2 * sqrt(m2)
SignSqrt3(g, a1, m1, a2, m2) ==
    LET sx == SignSqrt2(a1, m1, a2, m2)
    IN  IF g = 0 THEN sx
        ELSE IF sx = 0 \/ sx = Sgn(g) THEN Sgn(g)
        ELSE Sgn(g) * SignSqrt1(g * g - a1 * a1 * m1 - a2 * a2 * m2,
                                -2 * a1 * a2, m1 * m2)

FNum(pp, qq, mm, dd, cr) == [k |-> "num", p |-> pp, q |-> qq, m |-> mm, d |-> dd, cr |-> cr]
FInf == [k |-> "inf", p |-> 0, q |-> 0, m |-> 0, d |-> 1, cr |-> TRUE]
FNaN == [k |-> "nan", p |-> 0, q |-> 0, m |-> 0, d |-> 1, cr |-> TRUE]

\* a < b on the floats; a NaN compares false
FLess(a, b, tie) ==
    IF a.k = "nan" \/ b.k = "nan" THEN FALSE
    ELSE IF a.k = "inf" THEN FALSE
    ELSE IF b.k = "inf" THEN TRUE
    ELSE LET sg == SignSqrt3(b.p * a.d - a.p * b.d, b.q * a.d, b.m, -(a.q * b.d), a.m)
         IN  IF sg # 0 THEN sg > 0
             ELSE IF a.cr /\ b.cr THEN FALSE
             ELSE tie

\* (dx * dx + dy * dy) / (dx * 2.0): one division of exact operands
find_distance_to_point_arc(site, point) ==
    LET dx == x0(site) - point.x
        dy == y0(site) - point.y
        n == dx * dx + dy * dy
    IN  IF dx = 0 THEN (IF n = 0 THEN FNaN ELSE FInf)
        ELSE FNum(Sgn(dx) * n, 0, 0, 2 * Abs(dx), TRUE)

\* the cross product of small integers, as the signed integer the float holds
CrossValue(a1, b1, a2, b2) ==
    LET f == robust_cross_product_2i(i1_to_i2(a1), i1_to_i2(b1), i1_to_i2(a2), i1_to_i2(b2))
    IN  IF f.neg THEN -f.mag ELSE f.mag

\* half the x distance for a vertical segment; k * cross otherwise, where
\* k = 1 / (b1 + sqrt(a1^2 + b1^2)) for b1 >= 0 and (sqrt(a1^2 + b1^2) - b1) / a1^2
\* for b1 < 0, the same real number (sqrt(a1^2 + b1^2) - b1) / a1^2 either way
find_distance_to_segment_arc(site, point) ==
    IF is_vertical_1(site)
    THEN FNum(x0(site) - point.x, 0, 0, 2, TRUE)
    ELSE LET segment0 == point0(site)
             segment1 == point1(site)
             a1 == segment1.x - segment0.x
             b1 == segment1.y - segment0.y
             c == CrossValue(segment1.x - segment0.x, segment1.y - segment0.y,
                             point.x - segment0.x, point.y - segment0.y)
         IN  FNum(-(c * b1), c, a1 * a1 + b1 * b1, a1 * a1, FALSE)

(***************************************************************************)
(* Distance predicate                                                      *)
(***************************************************************************)
\* mutant: at equal x the integer inequality is taken with <=
pp_m1(left_site, right_site, new_point, tie) ==
    LET left_point == point0(left_site)
        right_point == point0(right_site)
        dist1 == find_distance_to_point_arc(left_site, new_point)
        dist2 == find_distance_to_point_arc(right_site, new_point)
    IN  IF left_point.x > right_point.x /\ new_point.y <= left_point.y THEN FALSE
        ELSE IF left_point.x < right_point.x /\ new_point.y >= right_point.y THEN TRUE
        ELSE IF left_point.x = right_point.x
        THEN left_point.y + right_point.y <= new_point.y * 2
        ELSE FLess(dist1, dist2, tie)

pp(left_site, right_site, new_point, tie) ==
    LET left_point == point0(left_site)
        right_point == point0(right_site)
        dist1 == find_distance_to_point_arc(left_site, new_point)
        dist2 == find_distance_to_point_arc(right_site, new_point)
    IN  IF left_point.x > right_point.x /\ new_point.y <= left_point.y THEN FALSE
        ELSE IF left_point.x < right_point.x /\ new_point.y >= right_point.y THEN TRUE
        ELSE IF left_point.x = right_point.x
        THEN left_point.y + right_point.y < new_point.y * 2
        ELSE FLess(dist1, dist2, tie)

\* the calls of find_distance_to_point_arc that pp makes, in order
pp_calls(left_site, right_site, new_point) ==
    LET left_point == point0(left_site)
        right_point == point0(right_site)
    IN  IF left_point.x > right_point.x /\ new_point.y <= left_point.y THEN <<>>
        ELSE IF left_point.x < right_point.x /\ new_point.y >= right_point.y THEN <<>>
        ELSE IF left_point.x = right_point.x THEN <<>>
        ELSE <<left_site, right_site>>

eval_4(dif_x1_, dif_y1_, dif_x2_, dif_y2_) ==
    eval_bf(robust_cross_product_2i(i1_to_i2(dif_x1_), i1_to_i2(dif_y1_),
                                    i1_to_i2(dif_x2_), i1_to_i2(dif_y2_)))

fast_ps(left_site, right_site, new_point, reverse_order) ==
    LET site_point == point0(left_site)
        segment_start == point0(right_site)
        segment_end == point1(right_site)
        eval == eval_3(segment_start, segment_end, new_point)
        dif_x == new_point.x - site_point.x
        dif_y == new_point.y - site_point.y
        a == segment_end.x - segment_start.x
        b == segment_end.y - segment_start.y
        orientation == eval_4(segment_end.x - segment_start.x,
                              segment_end.y - segment_start.y,
                              new_point.x - site_point.x,
                              new_point.y - site_point.y)
        fast_left_expr == a * (dif_y + dif_x) * (dif_y - dif_x)
        fast_right_expr == (2 * b) * dif_x * dif_y
        expr_cmp == fast_left_expr # fast_right_expr
    IN  IF eval # "RIGHT"
        THEN (IF ~is_inverse(right_site) THEN "LESS" ELSE "MORE")
        ELSE IF is_vertical_1(right_site)
        THEN (IF new_point.y < site_point.y /\ ~reverse_order THEN "MORE"
              ELSE IF new_point.y > site_point.y /\ reverse_order THEN "LESS"
              ELSE "UNDEFINED")
        ELSE IF orientation = "LEFT"
        THEN (IF ~is_inverse(right_site)
              THEN (IF reverse_order THEN "LESS" ELSE "UNDEFINED")
              ELSE (IF reverse_order THEN "UNDEFINED" ELSE "MORE"))
        ELSE IF expr_cmp
        THEN (IF Xor(fast_left_expr > fast_right_expr, reverse_order)
              THEN (IF reverse_order THEN "LESS" ELSE "MORE")
              ELSE "UNDEFINED")
        ELSE "UNDEFINED"

\* mutant: a defined fast result is read the wrong way round
ps_m1(left_site, right_site, new_point, reverse_order, tie) ==
    LET fast_res == fast_ps(left_site, right_site, new_point, reverse_order)
        dist1 == find_distance_to_point_arc(left_site, new_point)
        dist2 == find_distance_to_segment_arc(right_site, new_point)
    IN  IF fast_res # "UNDEFINED" THEN fast_res = "MORE"
        ELSE Xor(reverse_order, FLess(dist1, dist2, tie))

ps(left_site, right_site, new_point, reverse_order, tie) ==
    LET fast_res == fast_ps(left_site, right_site, new_point, reverse_order)
        dist1 == find_distance_to_point_arc(left_site, new_point)
        dist2 == find_distance_to_segment_arc(right_site, new_point)
    IN  IF fast_res # "UNDEFINED" THEN fast_res = "LESS"
        ELSE Xor(reverse_order, FLess(dist1, dist2, tie))

ss(left_site, right_site, new_point, tie) ==
    IF sorted_index(left_site) = sorted_index(right_site)
    THEN eval_3(point0(left_site), point1(left_site), new_point) = "LEFT"
    ELSE FLess(find_distance_to_segment_arc(left_site, new_point),
               find_distance_to_segment_arc(right_site, new_point), tie)

\* mutant: with the roles swapped the reverse_order flag is not set
distance_predicate_m1(left_site, right_site, new_point, tie) ==
    IF ~is_segment(left_site)
    THEN IF ~is_segment(right_site)
         THEN pp(left_site, right_site, new_point, tie)
         ELSE ps(left_site, right_site, new_point, FALSE, tie)
    ELSE IF ~is_segment(right_site)
         THEN ps(right_site, left_site, new_point, FALSE, tie)
         ELSE ss(left_site, right_site, new_point, tie)

distance_predicate(left_site, right_site, new_point, tie) ==
    IF ~is_segment(left_site)
    THEN IF ~is_segment(right_site)
         THEN pp(left_site, right_site, new_point, tie)
         ELSE ps(left_site, right_site, new_point, FALSE, tie)
    ELSE IF ~is_segment(right_site)
         THEN ps(right_site, left_site, new_point, TRUE, tie)
         ELSE ss(left_site, right_site, new_point, tie)

(***************************************************************************)
(* Beach-line node comparison                                              *)
(***************************************************************************)
Node(l, r) == [left_site |-> l, right_site |-> r]
left_site(n) == n.left_site
right_site(n) == n.right_site

\* mutant: the site with the smaller sorted_index is taken
get_comparison_site_m1(node) ==
    IF sorted_index(left_site(node)) < sorted_index(right_site(node))
    THEN left_site(node)
    ELSE right_site(node)

get_comparison_site(node) ==
    IF sorted_index(left_site(node)) > sorted_index(right_site(node))
    THEN left_site(node)
    ELSE right_site(node)

get_comparison_point(site) ==
    IF point_comparison_predicate(point0(site), point1(site))
    THEN point0(site)
    ELSE point1(site)

\* mutant: a left site that is newer always gives y1
get_comparison_y_m1(node, is_new_node) ==
    IF sorted_index(left_site(node)) = sorted_index(right_site(node))
    THEN <<y0(left_site(node)), 0>>
    ELSE IF sorted_index(left_site(node)) > sorted_index(right_site(node))
    THEN <<y1(left_site(node)), 1>>
    ELSE <<y0(right_site(node)), -1>>

\* the pair (y, direction) of the newer site
get_comparison_y(node, is_new_node) ==
    IF sorted_index(left_site(node)) = sorted_index(right_site(node))
    THEN <<y0(left_site(node)), 0>>
    ELSE IF sorted_index(left_site(node)) > sorted_index(right_site(node))
    THEN IF ~is_new_node /\ is_segment(left_site(node)) /\ is_vertical_1(left_site(node))
         THEN <<y0(left_site(node)), 1>>
         ELSE <<y1(left_site(node)), 1>>
    ELSE <<y0(right_site(node)), -1>>

\* (y, direction) pairs in lexicographic order
PairLess(a, b) == a[1] < b[1] \/ (a[1] = b[1] /\ a[2] < b[2])

node_comparison_predicate(node1, node2, tie) ==
    LET site1 == get_comparison_site(node1)
        site2 == get_comparison_site(node2)
        pt1 == get_comparison_point(site1)
        pt2 == get_comparison_point(site2)
    IN  IF pt1.x < pt2.x
        THEN distance_predicate(left_site(node1), right_site(node1), pt2, tie)
        ELSE IF pt1.x > pt2.x
        THEN ~distance_predicate(left_site(node2), right_site(node2), pt1, tie)
        ELSE IF sorted_index(site1) = sorted_index(site2)
        THEN PairLess(get_comparison_y(node1, TRUE), get_comparison_y(node2, TRUE))
        ELSE IF sorted_index(site1) < sorted_index(site2)
        THEN LET yy1 == get_comparison_y(node1, FALSE)
                 yy2 == get_comparison_y(node2, TRUE)
             IN  IF yy1[1] # yy2[1] THEN yy1[1] < yy2[1]
                 ELSE IF ~is_segment(site1) THEN yy1[2] < 0 ELSE FALSE
        ELSE LET yy1 == get_comparison_y(node1, TRUE)
                 yy2 == get_comparison_y(node2, FALSE)
             IN  IF yy1[1] # yy2[1] THEN yy1[1] < yy2[1]
                 ELSE IF ~is_segment(site2) THEN yy2[2] > 0 ELSE TRUE

(***************************************************************************)
(* Specification of the node order: two beach-line keys over the sites of  *)
(* a small grid, then the predicate.  A site's sorted_index is its place   *)
(* in the event order of the grid's features; a segment and its inverse    *)
(* share it.                                                               *)
(***************************************************************************)
\* the grid points (0,0), (0,1), (1,0), (1,1), (2,0), ... column by column
NodePoints == {Point(i \div 2, i % 2) : i \in 0 .. MaxNodePoint}

\* the features: point sites and segment sites with point0 before point1
NodeFeatures ==
    {Site(e[1], e[2], 0, FALSE) :
        e \in {f \in NodePoints \X NodePoints :
                  f[1] = f[2] \/ point_comparison_predicate(f[1], f[2])}}

\* t is before g in the pre-sort (segments leaving one point along one line
\* by their far end)
SortsBefore(t, g) ==
    \/ bii(t, g)
    \/ /\ t # g
       /\ ~bii(t, g) /\ ~bii(g, t)
       /\ point_comparison_predicate(point1(t), point1(g))

RankOf(g) == Cardinality({t \in NodeFeatures : SortsBefore(t, g)})

NodeSites ==
    {Site(g.point0, g.point1, RankOf(g), FALSE) : g \in NodeFeatures}
    \cup {Site(g.point1, g.point0, RankOf(g), TRUE) :
            g \in {h \in NodeFeatures : is_segment(h)}}

NodeKeys == {Node(l, r) : l \in NodeSites, r \in NodeSites}

InitNode ==
    /\ pc = "input"
    /\ in \in NodeKeys \X NodeKeys \X BOOLEAN
    /\ out = [kind |-> "none"]

NodeCompare ==
    /\ pc = "input"
    /\ out' = [kind |-> "node",
               val |-> node_comparison_predicate(in[1], in[2], in[3])]
    /\ pc' = "node"
    /\ in' = in

NextNode == NodeCompare

SpecNode == InitNode /\ [][NextNode]_vars

\* the site of the node with the larger sorted_index, the right one on a tie
NewerSite(n) ==
    CHOOSE t \in {n.left_site, n.right_site} :
        /\ \A u \in {n.left_site, n.right_site} : u.sorted_index <= t.sorted_index
        /\ n.left_site.sorted_index = n.right_site.sorted_index => t = n.right_site

\* the smaller end point of the site under the point order
SmallerPoint(t) ==
    CHOOSE q \in {t.point0, t.point1} :
        \A u \in {t.point0, t.point1} : ~point_comparison_predicate(u, q)

\* C9: each node's comparison site is the one with the larger sorted_index
\* (the right one on a tie), its comparison point the smaller end point of
\* that site; when the comparison points differ in x the result is
\* distance_predicate(node1.left, node1.right, point2) if point1.x < point2.x
\* and the negation of distance_predicate(node2.left, node2.right, point1) if
\* point1.x > point2.x.
C9_NodeByDistance ==
    pc = "node" =>
        LET n1 == in[1]
            n2 == in[2]
            p1 == SmallerPoint(NewerSite(n1))
            p2 == SmallerPoint(NewerSite(n2))
        IN  /\ get_comparison_site(n1) = NewerSite(n1)
            /\ get_comparison_point(get_comparison_site(n2)) = p2
            /\ p1.x < p2.x =>
                 out.val = distance_predicate(n1.left_site, n1.right_site, p2, in[3])
            /\ p1.x > p2.x =>
                 out.val = ~distance_predicate(n2.left_site, n2.right_site, p1, in[3])

\* node1's newer site is its left one, an inverse segment, and lies right of
\* node2's: the negated distance predicate of node2 at node1's point decides
C9_Witness ==
    /\ pc = "node"
    /\ in[1].left_site.sorted_index > in[1].right_site.sorted_index
    /\ is_inverse(in[1].left_site)
    /\ SmallerPoint(NewerSite(in[1])).x > SmallerPoint(NewerSite(in[2])).x
    /\ out.val = ~distance_predicate(in[2].left_site, in[2].right_site,
                                     in[1].left_site.point1, in[3])
    /\ out.val

\* the (y, direction) pair as the rule set gives it
ComparisonY(n, is_new_node) ==
    LET l == n.left_site
        r == n.right_site
    IN  CASE l.sorted_index = r.sorted_index -> <<l.point0.y, 0>>
          [] l.sorted_index < r.sorted_index -> <<r.point0.y, -1>>
          [] l.sorted_index > r.sorted_index
               /\ l.point0 # l.point1 /\ l.point0.x = l.point1.x /\ ~is_new_node
               -> <<l.point0.y, 1>>
          [] OTHER -> <<l.point1.y, 1>>

DistSites ==
    NodeSites \cup
    {new_1(p, Cardinality(NodeFeatures) + p.x * (MaxXY + 1) + p.y) : p \in XYPoints}

DistPoints == NodePoints \cup XYPoints

InitDist ==
    /\ pc = "input"
    /\ in \in DistSites \X DistSites \X DistPoints \X BOOLEAN
    /\ out = [kind |-> "none"]

DistancePredicate ==
    /\ pc = "input"
    /\ out' = [kind |-> "dist",
               val |-> distance_predicate(in[1], in[2], in[3], in[4]),
               pp_calls |-> IF ~is_segment(in[1]) /\ ~is_segment(in[2])
                            THEN pp_calls(in[1], in[2], in[3])
                            ELSE <<>>]
    /\ pc' = "dist"
    /\ in' = in

NextDist == DistancePredicate

SpecDist == InitDist /\ [][NextDist]_vars

\* a site whose end points differ is a segment, one whose end points agree a point
IsSeg(s) == s.point0 # s.point1

C12_PointPointInteger ==
    (pc = "dist" /\ ~IsSeg(in[1]) /\ ~IsSeg(in[2])) =>
        LET l == in[1].point0
            r == in[2].point0
            K == in[3]
        IN  /\ l.x = r.x =>
                 /\ out.val <=> (l.y + r.y < 2 * K.y)
                 /\ (l.y + r.y = 2 * K.y) => ~out.val
                 /\ out.pp_calls = <<>>
            /\ (l.x > r.x /\ K.y <= l.y) => (~out.val /\ out.pp_calls = <<>>)
            /\ (l.x < r.x /\ K.y >= r.y) => (out.val /\ out.pp_calls = <<>>)

\* two points on one vertical line and K level with their midpoint: false
C12_Witness ==
    /\ pc = "dist"
    /\ ~IsSeg(in[1]) /\ ~IsSeg(in[2])
    /\ in[1].point0.x = in[2].point0.x
    /\ in[1].point0.y < in[2].point0.y
    /\ in[1].point0.y + in[2].point0.y = 2 * in[3].y
    /\ ~out.val
    /\ out.pp_calls = <<>>

(***************************************************************************)
(* Specification of the point order: two points, then the predicate        *)
(* applied to the pair in both orders.                                     *)
(***************************************************************************)
InitPoint ==
    /\ pc = "input"
    /\ in \in OrientPoints \X OrientPoints
    /\ out = [kind |-> "none"]

PointCompare ==
    /\ pc = "input"
    /\ out' = [kind |-> "point",
               lt |-> point_comparison_predicate(in[1], in[2]),
               gt |-> point_comparison_predicate(in[2], in[1])]
    /\ pc' = "point"
    /\ in' = in

NextPoint == PointCompare

SpecPoint == InitPoint /\ [][NextPoint]_vars

\* C20: point_comparison_predicate(p, q) is true iff p.x < q.x, or p.x = q.x
\* and p.y < q.y; it is irreflexive, transitive, and orders two different
\* points exactly one way.
C20_PointOrder ==
    pc = "point" =>
        LET p == in[1]
            q == in[2]
        IN  /\ out.lt <=> (p.x < q.x \/ (p.x = q.x /\ p.y < q.y))
            /\ ~point_comparison_predicate(p, p)
            /\ p # q => (out.lt # out.gt)
            /\ p = q => (~out.lt /\ ~out.gt)
            /\ \A r \in OrientPoints :
                 (out.lt /\ point_comparison_predicate(q, r))
                     => point_comparison_predicate(p, r)

\* two points of equal x ordered by y
C20_Witness ==
    /\ pc = "point"
    /\ in[1].x = in[2].x
    /\ in[1].y < in[2].y
    /\ out.lt /\ ~out.gt

(***************************************************************************)
(* Circle events of the formation (voronoi_circleevent): centre x, y and   *)
(* lower_x, each a float held as its position in the order of the floats,  *)
(* or the NaN.  The values the robust arithmetic computes from the sites   *)
(* are inputs of the model (num): the three lazy values, their ulp error   *)
(* bounds and the three exact values; what the model computes itself is    *)
(* which of them is written where, and the square root of a negative       *)
(* discriminant, which is the NaN.                                         *)
(***************************************************************************)
Fv(p) == [nan |-> FALSE, pos |-> p]
FvNaN == [nan |-> TRUE, pos |-> 0]

Coords(x, y, lx) == [x |-> x, y |-> y, lower_x |-> lx]

set_3_raw(c, x, y, lx) == [c EXCEPT !.x = x, !.y = y, !.lower_x = lx]
set_x_raw(c, x) == [c EXCEPT !.x = x]
set_y_raw(c, y) == [c EXCEPT !.y = y]
set_lower_x_raw(c, lx) == [c EXCEPT !.lower_x = lx]

(***************************************************************************)
(* Circle existence                                                        *)
(***************************************************************************)
CircleExistencePredicate_ppp(site1, site2, site3) ==
    eval_3(point0(site1), point0(site2), point0(site3)) = "RIGHT"

CircleExistencePredicate_pps(site1, site2, site3, segment_index) ==
    IF segment_index # 2
    THEN LET orient1 == eval_3(point0(site1), point0(site2), point0(site3))
             orient2 == eval_3(point0(site1), point0(site2), point1(site3))
         IN  IF segment_index = 1 /\ x0(site1) >= x0(site2)
             THEN orient1 = "RIGHT"
             ELSE IF segment_index = 3 /\ x0(site2) >= x0(site1)
             THEN orient2 = "RIGHT"
             ELSE ~(orient1 # "RIGHT" /\ orient2 # "RIGHT")
    ELSE point0(site3) # point0(site1) \/ point1(site3) # point0(site2)

\* mutant: the test of the middle point is made for every point_index
CircleExistencePredicate_pss_m1(site1, site2, site3, point_index) ==
    IF sorted_index(site2) = sorted_index(site3) THEN FALSE
    ELSE IF ~is_inverse(site2) /\ is_inverse(site3) THEN FALSE
    ELSE IF is_inverse(site2) = is_inverse(site3)
            /\ eval_3(point0(site2), point0(site1), point1(site3)) # "RIGHT"
    THEN FALSE
    ELSE TRUE

CircleExistencePredicate_pss(site1, site2, site3, point_index) ==
    IF sorted_index(site2) = sorted_index(site3) THEN FALSE
    ELSE IF point_index = 2 /\ ~is_inverse(site2) /\ is_inverse(site3) THEN FALSE
    ELSE IF point_index = 2
            /\ is_inverse(site2) = is_inverse(site3)
            /\ eval_3(point0(site2), point0(site1), point1(site3)) # "RIGHT"
    THEN FALSE
    ELSE TRUE

\* mutant: site1 and site3 are compared as well
CircleExistencePredicate_sss_m1(site1, site2, site3) ==
    /\ sorted_index(site1) # sorted_index(site2)
    /\ sorted_index(site2) # sorted_index(site3)
    /\ sorted_index(site1) # sorted_index(site3)

CircleExistencePredicate_sss(site1, site2, site3) ==
    /\ sorted_index(site1) # sorted_index(site2)
    /\ sorted_index(site2) # sorted_index(site3)

(***************************************************************************)
(* Exact circle formation: the flagged coordinates are written with the    *)
(* exact values.                                                           *)
(***************************************************************************)
\* mutant: x is written only when it is flagged itself
ExactCircleFormationFunctor_ppp_m1(site1, site2, site3, circle, recompute_c_x, recompute_c_y, recompute_lower_x, num) ==
    LET c1 == IF recompute_c_x THEN set_x_raw(circle, num.exact.x) ELSE circle
        c2 == IF recompute_lower_x
              THEN set_lower_x_raw(c1, num.exact.lower_x)
              ELSE c1
    IN  IF recompute_c_y THEN set_y_raw(c2, num.exact.y) ELSE c2

ExactCircleFormationFunctor_ppp(site1, site2, site3, circle, recompute_c_x, recompute_c_y, recompute_lower_x, num) ==
    LET c1 == IF recompute_c_x \/ recompute_lower_x
              THEN set_x_raw(circle, num.exact.x)
              ELSE circle
        c2 == IF (recompute_c_x \/ recompute_lower_x) /\ recompute_lower_x
              THEN set_lower_x_raw(c1, num.exact.lower_x)
              ELSE c1
    IN  IF recompute_c_y THEN set_y_raw(c2, num.exact.y) ELSE c2

ExactCircleFormationFunctor_pps(site1, site2, site3, segment_index, c_event, recompute_c_x, recompute_c_y, recompute_lower_x, num) ==
    LET line_a == y1(site3) - y0(site3)
        line_b == x0(site3) - x1(site3)
        vec_x == y0(site2) - y0(site1)
        vec_y == x0(site1) - x0(site2)
        denom == vec_x * line_b - vec_y * line_a
        c1 == IF recompute_c_x THEN set_x_raw(c_event, num.exact.x) ELSE c_event
        c2 == IF recompute_c_y THEN set_y_raw(c1, num.exact.y) ELSE c1
        c3 == IF recompute_lower_x THEN set_lower_x_raw(c2, num.exact.lower_x) ELSE c2
    IN  \* with a zero denominator and without, the flagged coordinates only
        IF denom = 0 THEN c3 ELSE c3

ExactCircleFormationFunctor_pss(site1, site2, site3, point_index, c_event, recompute_c_x, recompute_c_y, recompute_lower_x, num) ==
    LET segm_start1 == point1(site2)
        segm_end1 == point0(site2)
        segm_start2 == point0(site3)
        segm_end2 == point1(site3)
        a0 == segm_end1.x - segm_start1.x
        b0 == segm_end1.y - segm_start1.y
        a1 == segm_end2.x - segm_start2.x
        b1 == segm_end2.y - segm_start2.y
        orientation == a1 * b0 - a0 * b1
        cc0 == b0 * segm_end1.x - a0 * segm_end1.y
        cc1 == a1 * segm_end2.y - b1 * segm_end2.x
        ix == a0 * cc1 + a1 * cc0
        iy == b0 * cc1 + b1 * cc0
        dx == ix - orientation * x0(site1)
        dy == iy - orientation * y0(site1)
        c1 == IF recompute_c_y THEN set_y_raw(c_event, num.exact.y) ELSE c_event
        c2 == IF recompute_c_x THEN set_x_raw(c1, num.exact.x) ELSE c1
        c3 == IF recompute_lower_x THEN set_lower_x_raw(c2, num.exact.lower_x) ELSE c2
    IN  IF orientation = 0 THEN c3
        ELSE IF dx = 0 /\ dy = 0
        THEN \* ix / orientation and iy / orientation: the point site itself
             set_3_raw(c_event, Fv(i1_to_f64(x0(site1))), Fv(i1_to_f64(y0(site1))),
                       Fv(i1_to_f64(x0(site1))))
        ELSE c3

ExactCircleFormationFunctor_sss(site1, site2, site3, c_event, recompute_c_x, recompute_c_y, recompute_lower_x, num) ==
    LET c1 == IF recompute_c_y THEN set_y_raw(c_event, num.exact.y) ELSE c_event
        c2 == IF recompute_c_x THEN set_x_raw(c1, num.exact.x) ELSE c1
    IN  IF recompute_lower_x THEN set_lower_x_raw(c2, num.exact.lower_x) ELSE c2

(***************************************************************************)
(* Lazy circle formation: the three lazy values are written, the           *)
(* coordinates whose error bound is above the threshold are flagged, and   *)
(* the exact formation is called if a flag is set.  The result holds the   *)
(* circle as the lazy formation wrote it (lazy_c), the call of the exact   *)
(* formation (exact) and the circle at the end.                            *)
(***************************************************************************)
NoCall == [fn |-> "none", c_x |-> FALSE, c_y |-> FALSE, lower_x |-> FALSE]
Call(f, rx, ry, rlx) == [fn |-> f, c_x |-> rx, c_y |-> ry, lower_x |-> rlx]

Formed(lazy_c, ex, c) == [lazy_c |-> lazy_c, exact |-> ex, circle |-> c]

LazyCircleFormationFunctor_ppp(site1, site2, site3, c_event, num) ==
    LET c == set_3_raw(c_event, num.lazy.x, num.lazy.y, num.lazy.lower_x)
        recompute_c_x == num.ulp.x > ulps(F2Bytes)
        recompute_c_y == num.ulp.y > ulps(F2Bytes)
        recompute_lower_x == num.ulp.lower_x > ulps(F2Bytes)
    IN  IF recompute_c_x \/ recompute_c_y \/ recompute_lower_x
        THEN Formed(c, Call("ppp", recompute_c_x, recompute_c_y, recompute_lower_x),
                    ExactCircleFormationFunctor_ppp(site1, site2, site3, c,
                        recompute_c_x, recompute_c_y, recompute_lower_x, num))
        ELSE Formed(c, NoCall, c)

LazyCircleFormationFunctor_pps(site1, site2, site3, segment_index, c_event, num) ==
    LET c == set_3_raw(c_event, num.lazy.x, num.lazy.y, num.lazy.lower_x)
        recompute_c_x == num.ulp.x > ulps(F2Bytes)
        recompute_c_y == num.ulp.y > ulps(F2Bytes)
        recompute_lower_x == num.ulp.lower_x > ulps(F2Bytes)
    IN  IF recompute_c_x \/ recompute_c_y \/ recompute_lower_x
        THEN Formed(c, Call("pps", recompute_c_x, recompute_c_y, recompute_lower_x),
                    ExactCircleFormationFunctor_pps(site1, site2, site3, segment_index, c,
                        recompute_c_x, recompute_c_y, recompute_lower_x, num))
        ELSE Formed(c, NoCall, c)

\* the discriminant of the parallel branch: the product of two cross products
ParallelDet(site1, site2, site3) ==
    LET segm_start1 == point1(site2)
        segm_end1 == point0(site2)
        segm_start2 == point0(site3)
    IN  CrossValue(segm_end1.x - segm_start1.x, segm_end1.y - segm_start1.y,
                   x0(site1) - segm_start1.x, y0(site1) - segm_start1.y)
        * CrossValue(segm_end1.y - segm_start1.y, segm_end1.x - segm_start1.x,
                     y0(site1) - segm_start2.y, x0(site1) - segm_start2.x)

\* the cross product of the two segment directions
SegmentsOrientation(site2, site3) ==
    LET segm_start1 == point1(site2)
        segm_end1 == point0(site2)
        segm_start2 == point0(site3)
        segm_end2 == point1(site3)
    IN  CrossValue(segm_end1.y - segm_start1.y, segm_end1.x - segm_start1.x,
                   segm_end2.y - segm_start2.y, segm_end2.x - segm_start2.x)

\* in the parallel branch the flags computed are local to the branch and the
\* flags of the function stay false; the square root of a negative
\* discriminant makes t, and with it the three coordinates, the NaN
LazyCircleFormationFunctor_pss(site1, site2, site3, point_index, c_event, num) ==
    LET parallel == SegmentsOrientation(site2, site3) = 0
        nan == parallel /\ ParallelDet(site1, site2, site3) < 0
        c == IF nan THEN set_3_raw(c_event, FvNaN, FvNaN, FvNaN)
             ELSE set_3_raw(c_event, num.lazy.x, num.lazy.y, num.lazy.lower_x)
        recompute_c_x == ~parallel /\ num.ulp.x > ulps(F2Bytes)
        recompute_c_y == ~parallel /\ num.ulp.y > ulps(F2Bytes)
        recompute_lower_x == ~parallel /\ num.ulp.lower_x > ulps(F2Bytes)
    IN  IF recompute_c_x \/ recompute_c_y \/ recompute_lower_x
        THEN Formed(c, Call("pss", recompute_c_x, recompute_c_y, recompute_lower_x),
                    ExactCircleFormationFunctor_pss(site1, site2, site3, point_index, c,
                        recompute_c_x, recompute_c_y, recompute_lower_x, num))
        ELSE Formed(c, NoCall, c)

LazyCircleFormationFunctor_sss(site1, site2, site3, c_event, num) ==
    LET c == set_3_raw(c_event, num.lazy.x, num.lazy.y, num.lazy.lower_x)
        recompute_c_x == num.ulp.x > ulps(F2Bytes)
        recompute_c_y == num.ulp.y > ulps(F2Bytes)
        recompute_lower_x == num.ulp.lower_x > ulps(F2Bytes)
    IN  IF recompute_c_x \/ recompute_c_y \/ recompute_lower_x
        THEN Formed(c, Call("sss", recompute_c_x, recompute_c_y, recompute_lower_x),
                    ExactCircleFormationFunctor_sss(site1, site2, site3, c,
                        recompute_c_x, recompute_c_y, recompute_lower_x, num))
        ELSE Formed(c, NoCall, c)

(***************************************************************************)
(* Circle formation predicate                                              *)
(***************************************************************************)
\* mutant: the lower end is always taken from y0 and the upper from y1
lies_outside_vertical_segment_m1(c, s, nan_out) ==
    IF ~is_segment(s) \/ ~is_vertical_1(s) THEN FALSE
    ELSE LET yy0 == i1_to_f64(y0(s))
             yy1 == i1_to_f64(y1(s))
             cc_y == c.y
         IN  IF cc_y.nan THEN nan_out
             ELSE \/ ulp_comparison(cc_y.pos, yy0, 128) = "Less"
                  \/ ulp_comparison(cc_y.pos, yy1, 128) = "Greater"

\* the comparison of a NaN with an end of the segment falls as nan_out says
lies_outside_vertical_segment(c, s, nan_out) ==
    IF ~is_segment(s) \/ ~is_vertical_1(s) THEN FALSE
    ELSE LET yy0 == i1_to_f64(IF is_inverse(s) THEN y1(s) ELSE y0(s))
             yy1 == i1_to_f64(IF is_inverse(s) THEN y0(s) ELSE y1(s))
             cc_y == c.y
         IN  IF cc_y.nan THEN nan_out
             ELSE \/ ulp_comparison(cc_y.pos, yy0, 128) = "Less"
                  \/ ulp_comparison(cc_y.pos, yy1, 128) = "Greater"

\* mutant: the circle event is touched before the existence predicate answers
Refused_m1(tag, circle) ==
    [ret |-> FALSE, tag |-> tag, run |-> FALSE, exists |-> FALSE,
     lazy_c |-> set_x_raw(circle, Fv(1)), exact |-> NoCall,
     circle |-> set_x_raw(circle, Fv(1))]

\* the result of the predicate: the value returned, the triple kind (tag) and
\* the formation, absent (run = FALSE) when the existence predicate refused
Refused(tag, circle) ==
    [ret |-> FALSE, tag |-> tag, run |-> FALSE, exists |-> FALSE,
     lazy_c |-> circle, exact |-> NoCall, circle |-> circle]

Filtered(tag, site1, site2, site3, f, nan_out) ==
    [ret |-> ~(\/ lies_outside_vertical_segment(f.circle, site1, nan_out)
               \/ lies_outside_vertical_segment(f.circle, site2, nan_out)
               \/ lies_outside_vertical_segment(f.circle, site3, nan_out)),
     tag |-> tag, run |-> TRUE, exists |-> TRUE,
     lazy_c |-> f.lazy_c, exact |-> f.exact, circle |-> f.circle]

circle_formation_predicate(site1, site2, site3, circle, num) ==
    IF ~is_segment(site1)
    THEN IF ~is_segment(site2)
         THEN IF ~is_segment(site3)
              THEN IF ~CircleExistencePredicate_ppp(site1, site2, site3)
                   THEN Refused("ppp", circle)
                   ELSE Filtered("ppp", site1, site2, site3,
                            LazyCircleFormationFunctor_ppp(site1, site2, site3, circle, num),
                            num.nan_out)
              ELSE IF ~CircleExistencePredicate_pps(site1, site2, site3, 3)
                   THEN Refused("pps3", circle)
                   ELSE Filtered("pps3", site1, site2, site3,
                            LazyCircleFormationFunctor_pps(site1, site2, site3, 3, circle, num),
                            num.nan_out)
         ELSE IF ~is_segment(site3)
              THEN IF ~CircleExistencePredicate_pps(site1, site3, site2, 2)
                   THEN Refused("pps2", circle)
                   ELSE Filtered("pps2", site1, site2, site3,
                            LazyCircleFormationFunctor_pps(site1, site3, site2, 2, circle, num),
                            num.nan_out)
              ELSE IF ~CircleExistencePredicate_pss(site1, site2, site3, 1)
                   THEN Refused("pss1", circle)
                   ELSE Filtered("pss1", site1, site2, site3,
                            LazyCircleFormationFunctor_pss(site1, site2, site3, 1, circle, num),
                            num.nan_out)
    ELSE IF ~is_segment(site2)
         THEN IF ~is_segment(site3)
              THEN IF ~CircleExistencePredicate_pps(site2, site3, site1, 1)
                   THEN Refused("pps1", circle)
                   ELSE Filtered("pps1", site1, site2, site3,
                            LazyCircleFormationFunctor_pps(site2, site3, site1, 1, circle, num),
                            num.nan_out)
              ELSE IF ~CircleExistencePredicate_pss(site2, site1, site3, 2)
                   THEN Refused("pss2", circle)
                   ELSE Filtered("pss2", site1, site2, site3,
                            LazyCircleFormationFunctor_pss(site2, site1, site3, 2, circle, num),
                            num.nan_out)
         ELSE IF ~is_segment(site3)
              THEN IF ~CircleExistencePredicate_pss(site3, site1, site2, 3)
                   THEN Refused("pss3", circle)
                   ELSE Filtered("pss3", site1, site2, site3,
                            LazyCircleFormationFunctor_pss(site3, site1, site2, 3, circle, num),
                            num.nan_out)
              ELSE IF ~CircleExistencePredicate_sss(site1, site2, site3)
                   THEN Refused("sss", circle)
                   ELSE Filtered("sss", site1, site2, site3,
                            LazyCircleFormationFunctor_sss(site1, site2, site3, circle, num),
                            num.nan_out)

\* a call of an existence predicate or of a lazy formation: the functor, the
\* routine, the sites in the order they are passed and the index (0 for ppp
\* and sss, which take none)
FunctorCall(functor, fn, a, b, c, index) ==
    [functor |-> functor, fn |-> fn, sites |-> <<a, b, c>>, index |-> index]

\* the existence predicate is called, and the lazy formation after it when
\* it accepted
PairOfCalls(fn, a, b, c, index, accepted) ==
    <<FunctorCall("CircleExistencePredicate", fn, a, b, c, index)>>
    \o (IF accepted
        THEN <<FunctorCall("LazyCircleFormationFunctor", fn, a, b, c, index)>>
        ELSE <<>>)

\* mutant: (point, segment, point) passes the sites in the order it got them
circle_formation_calls_m1(site1, site2, site3) ==
    IF ~is_segment(site1)
    THEN IF ~is_segment(site2)
         THEN IF ~is_segment(site3)
              THEN PairOfCalls("ppp", site1, site2, site3, 0,
                       CircleExistencePredicate_ppp(site1, site2, site3))
              ELSE PairOfCalls("pps", site1, site2, site3, 3,
                       CircleExistencePredicate_pps(site1, site2, site3, 3))
         ELSE IF ~is_segment(site3)
              THEN PairOfCalls("pps", site1, site2, site3, 2,
                       CircleExistencePredicate_pps(site1, site3, site2, 2))
              ELSE PairOfCalls("pss", site1, site2, site3, 1,
                       CircleExistencePredicate_pss(site1, site2, site3, 1))
    ELSE IF ~is_segment(site2)
         THEN IF ~is_segment(site3)
              THEN PairOfCalls("pps", site2, site3, site1, 1,
                       CircleExistencePredicate_pps(site2, site3, site1, 1))
              ELSE PairOfCalls("pss", site2, site1, site3, 2,
                       CircleExistencePredicate_pss(site2, site1, site3, 2))
         ELSE IF ~is_segment(site3)
              THEN PairOfCalls("pss", site3, site1, site2, 3,
                       CircleExistencePredicate_pss(site3, site1, site2, 3))
              ELSE PairOfCalls("sss", site1, site2, site3, 0,
                       CircleExistencePredicate_sss(site1, site2, site3))

\* the calls circle_formation_predicate makes, in their order
circle_formation_calls(site1, site2, site3) ==
    IF ~is_segment(site1)
    THEN IF ~is_segment(site2)
         THEN IF ~is_segment(site3)
              THEN PairOfCalls("ppp", site1, site2, site3, 0,
                       CircleExistencePredicate_ppp(site1, site2, site3))
              ELSE PairOfCalls("pps", site1, site2, site3, 3,
                       CircleExistencePredicate_pps(site1, site2, site3, 3))
         ELSE IF ~is_segment(site3)
              THEN PairOfCalls("pps", site1, site3, site2, 2,
                       CircleExistencePredicate_pps(site1, site3, site2, 2))
              ELSE PairOfCalls("pss", site1, site2, site3, 1,
                       CircleExistencePredicate_pss(site1, site2, site3, 1))
    ELSE IF ~is_segment(site2)
         THEN IF ~is_segment(site3)
              THEN PairOfCalls("pps", site2, site3, site1, 1,
                       CircleExistencePredicate_pps(site2, site3, site1, 1))
              ELSE PairOfCalls("pss", site2, site1, site3, 2,
                       CircleExistencePredicate_pss(site2, site1, site3, 2))
         ELSE IF ~is_segment(site3)
              THEN PairOfCalls("pss", site3, site1, site2, 3,
                       CircleExistencePredicate_pss(site3, site1, site2, 3))
              ELSE PairOfCalls("sss", site1, site2, site3, 0,
                       CircleExistencePredicate_sss(site1, site2, site3))

(***************************************************************************)
(* Specification of the circle formation: three sites over the points of   *)
(* a small grid inside the binade, the values of the robust arithmetic,    *)
(* then circle_formation_predicate on a fresh circle event.                *)
(***************************************************************************)
\* the grid points (4,4), (4,5), (5,4), (5,5), (6,4), ... column by column
GridPoints(n) == {Point(4 + (i \div 2), 4 + (i % 2)) : i \in 0 .. n}

\* the features over a set of points: point sites and segment sites with
\* point0 before point1
FeaturesOf(P) ==
    {Site(e[1], e[2], 0, FALSE) :
        e \in {f \in P \X P : f[1] = f[2] \/ point_comparison_predicate(f[1], f[2])}}

\* the sites over a set of points: every feature with its place in the
\* pre-sort as sorted_index, and the inverse of every segment
SitesOf(P) ==
    LET F == FeaturesOf(P)
        rank(g) == Cardinality({t \in F : SortsBefore(t, g)})
    IN  {Site(g.point0, g.point1, rank(g), FALSE) : g \in F}
        \cup {Site(g.point1, g.point0, rank(g), TRUE) : g \in {h \in F : is_segment(h)}}

FormSites == SitesOf(GridPoints(MaxFormPoint))

\* error bounds at the threshold and just above it
UlpBounds == {ulps(F2Bytes), ulps(F2Bytes) + 1}

FormLazy == Coords(Fv(i1_to_f64(5)), Fv(i1_to_f64(5)), Fv(i1_to_f64(6)))

\* the exact values, one float away from the lazy ones
FormExact == Coords(Fv(i1_to_f64(5) + 1), Fv(i1_to_f64(5) + 1), Fv(i1_to_f64(6) + 1))

FormNums ==
    {[lazy |-> FormLazy, ulp |-> Coords(ux, uy, ulx), exact |-> FormExact, nan_out |-> b] :
        ux \in UlpBounds, uy \in UlpBounds, ulx \in UlpBounds, b \in BOOLEAN}

NewCircle == Coords(Fv(0), Fv(0), Fv(0))

InitFormation ==
    /\ pc = "input"
    /\ in \in FormSites \X FormSites \X FormSites \X FormNums
    /\ out = [kind |-> "none"]

CircleFormation ==
    /\ pc = "input"
    /\ out' = circle_formation_predicate(in[1], in[2], in[3], NewCircle, in[4])
                @@ [calls |-> circle_formation_calls(in[1], in[2], in[3])]
    /\ pc' = "formed"
    /\ in' = in

NextFormation == CircleFormation

SpecFormation == InitFormation /\ [][NextFormation]_vars

(***************************************************************************)
(* The same with the circle's y around the ends of the segments: fewer     *)
(* sites, the lazy and the exact y drawn from the floats about the         *)
(* tolerance on either side of each integer y.                             *)
(***************************************************************************)
FilterSites == SitesOf(GridPoints(MaxFilterPoint))

FilterOffsets ==
    (-(128 + UlpSlack) .. -(128 - UlpSlack)) \cup {0} \cup ((128 - UlpSlack) .. (128 + UlpSlack))

FilterYs == {i1_to_f64(y) + d : y \in 4 .. 5, d \in FilterOffsets}

FilterExactYs == {i1_to_f64(4) - 129, i1_to_f64(4), i1_to_f64(5) + 129}

FilterNums ==
    {[lazy |-> Coords(Fv(i1_to_f64(5)), Fv(ly), Fv(i1_to_f64(6))),
      ulp |-> Coords(ulps(F2Bytes), uy, ulps(F2Bytes)),
      exact |-> Coords(Fv(i1_to_f64(5) + 1), Fv(ey), Fv(i1_to_f64(6) + 1)),
      nan_out |-> FALSE] :
        ly \in FilterYs, uy \in UlpBounds, ey \in FilterExactYs}

InitFilter ==
    /\ pc = "input"
    /\ in \in FilterSites \X FilterSites \X FilterSites \X FilterNums
    /\ out = [kind |-> "none"]

SpecFilter == InitFilter /\ [][NextFormation]_vars

\* the threshold of the formations and the three error bounds
Threshold == ulps(F2Bytes)
AboveThreshold(u) == u > Threshold

\* C13: in every lazy formation that ran (ppp, pps, pss in its parallel and
\* in its general branch, sss), if the error bound of cx, cy or lower_x is
\* above the ULPS threshold, the matching exact formation is called with the
\* recompute flag set for each such coordinate, and for no other.
C13_ExactFallback ==
    (pc = "formed" /\ out.run) =>
        LET u == in[4].ulp
        IN  (AboveThreshold(u.x) \/ AboveThreshold(u.y) \/ AboveThreshold(u.lower_x)) =>
                /\ out.exact.fn # "none"
                /\ out.exact.c_x = AboveThreshold(u.x)
                /\ out.exact.c_y = AboveThreshold(u.y)
                /\ out.exact.lower_x = AboveThreshold(u.lower_x)

\* C14 as stated: after any call of the exact formation every one of x, y,
\* lower_x whose flag is false holds the value it had before the call.
C14_FrameAll ==
    (pc = "formed" /\ out.exact.fn # "none") =>
        /\ ~out.exact.c_x => out.circle.x = out.lazy_c.x
        /\ ~out.exact.c_y => out.circle.y = out.lazy_c.y
        /\ ~out.exact.lower_x => out.circle.lower_x = out.lazy_c.lower_x

\* the point site of a triple with two segments
ThePoint(a, b, c) == CHOOSE t \in {a, b, c} : t.point0 = t.point1

\* the lines of all the segments of the triple go through q, and two of them
\* are not parallel
LinesMeetAt(a, b, c, q) ==
    /\ \A t \in {a, b, c} : IsSeg(t) => Det(t.point0, t.point1, q) = 0
    /\ \E t \in {a, b, c} : \E u \in {a, b, c} :
         /\ IsSeg(t) /\ IsSeg(u)
         /\ (t.point1.x - t.point0.x) * (u.point1.y - u.point0.y)
              # (t.point1.y - t.point0.y) * (u.point1.x - u.point0.x)

\* a pss call whose two segment lines meet at the point site
PssAtCrossing ==
    /\ out.exact.fn = "pss"
    /\ LinesMeetAt(in[1], in[2], in[3], ThePoint(in[1], in[2], in[3]).point0)

\* C14 (amended): after a call of the exact formation every flagged
\* coordinate holds the exact value and every one of x, y, lower_x whose flag
\* is false holds the value it had before the call, with two exceptions: ppp
\* writes x also when only lower_x is flagged, and pss, when the lines of the
\* two segments cross at the point site, writes all three coordinates (the
\* point's x, its y, and its x again as lower_x) whatever the flags.
C14_FrameExceptXAndCrossing ==
    (pc = "formed" /\ out.exact.fn # "none") =>
        IF PssAtCrossing
        THEN LET q == ThePoint(in[1], in[2], in[3]).point0
             IN  /\ out.circle.x = Fv(i1_to_f64(q.x))
                 /\ out.circle.y = Fv(i1_to_f64(q.y))
                 /\ out.circle.lower_x = Fv(i1_to_f64(q.x))
        ELSE /\ out.circle.y = IF out.exact.c_y THEN in[4].exact.y ELSE out.lazy_c.y
             /\ out.circle.lower_x =
                  IF out.exact.lower_x THEN in[4].exact.lower_x ELSE out.lazy_c.lower_x
             /\ out.circle.x =
                  IF out.exact.c_x \/ (out.exact.fn = "ppp" /\ out.exact.lower_x)
                  THEN in[4].exact.x
                  ELSE out.lazy_c.x

\* ppp with only lower_x flagged: x is written as well, y is left alone
C14_Witness ==
    /\ pc = "formed"
    /\ out.exact.fn = "ppp"
    /\ ~out.exact.c_x /\ ~out.exact.c_y /\ out.exact.lower_x
    /\ out.circle.x = in[4].exact.x
    /\ out.circle.x # out.lazy_c.x
    /\ out.circle.y = out.lazy_c.y

\* the sites of a pss triple in the order of the call: the point, the first
\* segment, the second segment
PssArgs ==
    IF out.tag = "pss1" THEN <<in[1], in[2], in[3]>>
    ELSE IF out.tag = "pss2" THEN <<in[2], in[1], in[3]>>
    ELSE <<in[3], in[1], in[2]>>

\* C15 as stated: for a pss triple with the point at index 1 the existence
\* predicate is false if the two segments share sorted_index, or if they are
\* co-inverse and Orientation(m.p0, l.p0, r.p1) is not RIGHT, and true
\* otherwise (l the point, m and r the segments).
C15_PssPointFirst ==
    (pc = "formed" /\ out.tag = "pss1") =>
        LET l == in[1]
            m == in[2]
            r == in[3]
        IN  out.exists <=>
              ~(\/ m.sorted_index = r.sorted_index
                \/ /\ m.is_inverse = r.is_inverse
                   /\ SignName(Det(m.point0, l.point0, r.point1)) # "RIGHT")

\* C15 (amended): for a pss triple the existence predicate is false if the
\* two segments share sorted_index; when the point is the middle site of the
\* triple (point_index 2) it is also false if the first segment is not
\* inverse and the second is, or if the two are co-inverse and
\* Orientation(m.p0, l.p0, r.p1) is not RIGHT; otherwise it is true, so with
\* the point first or last only sorted_index is looked at.
C15_PssExistence ==
    (pc = "formed" /\ out.tag \in {"pss1", "pss2", "pss3"}) =>
        LET l == PssArgs[1]
            m == PssArgs[2]
            r == PssArgs[3]
        IN  out.exists <=>
              /\ m.sorted_index # r.sorted_index
              /\ out.tag = "pss2" =>
                   /\ ~(~m.is_inverse /\ r.is_inverse)
                   /\ ~(/\ m.is_inverse = r.is_inverse
                        /\ SignName(Det(m.point0, l.point0, r.point1)) # "RIGHT")

\* the point first, two co-inverse segments and an orientation that is not
\* RIGHT: the circle exists
C15_Witness ==
    /\ pc = "formed"
    /\ out.tag = "pss1"
    /\ in[2].is_inverse = in[3].is_inverse
    /\ SignName(Det(in[2].point0, in[1].point0, in[3].point1)) # "RIGHT"
    /\ out.exists

\* C16 as stated: the existence predicate of an sss triple is true only if
\* the three sites have pairwise different sorted_index.
C16_SssAllDistinct ==
    (pc = "formed" /\ out.tag = "sss" /\ out.exists) =>
        /\ in[1].sorted_index # in[2].sorted_index
        /\ in[2].sorted_index # in[3].sorted_index
        /\ in[1].sorted_index # in[3].sorted_index

\* C16 (amended): the existence predicate of an sss triple is true exactly
\* when site1 and site2 have different sorted_index and site2 and site3 have
\* different sorted_index; site1 and site3 are not compared, so a triple
\* whose first and third sites share sorted_index is accepted.
C16_SssNeighboursDistinct ==
    (pc = "formed" /\ out.tag = "sss") =>
        (out.exists <=>
            /\ in[1].sorted_index # in[2].sorted_index
            /\ in[2].sorted_index # in[3].sorted_index)

\* a segment, another segment and the inverse of the first: accepted
C16_Witness ==
    /\ pc = "formed"
    /\ out.tag = "sss"
    /\ in[1].sorted_index = in[3].sorted_index
    /\ in[1].sorted_index # in[2].sorted_index
    /\ out.exists

Max2(a, b) == IF a > b THEN a ELSE b

\* y is below the lower end or above the upper end of the vertical segment s
\* by more than 128 floats
OutsideExtent(y, s) ==
    /\ IsSeg(s)
    /\ s.point0.x = s.point1.x
    /\ \/ y.pos < i1_to_f64(Min2(s.point0.y, s.point1.y)) - 128
       \/ y.pos > i1_to_f64(Max2(s.point0.y, s.point1.y)) + 128

\* C17: circle_formation_predicate returns false for a formed circle whose y
\* is below the lower end or above the upper end of a vertical segment site
\* of the triple by more than 128 ULP, the same for a segment and its
\* inverse, and the filter rejects no other formed circle: none on account
\* of a point site or of a segment that is not vertical.
C17_VerticalFilter ==
    (pc = "formed" /\ out.run) =>
        (out.ret <=> ~(\E i \in 1 .. 3 : OutsideExtent(out.circle.y, in[i])))

\* an inverse vertical segment and a circle above its upper end: rejected
C17_Witness ==
    /\ pc = "formed"
    /\ out.run
    /\ \E i \in 1 .. 3 :
         /\ in[i].is_inverse
         /\ OutsideExtent(out.circle.y, in[i])
         /\ out.circle.y.pos > i1_to_f64(in[i].point0.y) + 128
    /\ ~out.ret

\* the discriminant of the quadratic in t for the point q and two parallel
\* segments, the first from s to e, the second starting at s2
Discriminant(q, s, e, s2) ==
    LET cross(ax, ay, bx, by) == ax * by - ay * bx
    IN  -(cross(e.x - s.x, e.y - s.y, q.x - s.x, q.y - s.y)
          * cross(e.x - s.x, e.y - s.y, q.x - s2.x, q.y - s2.y))

Parallel(m, r) ==
    (m.point1.x - m.point0.x) * (r.point1.y - r.point0.y)
        = (m.point1.y - m.point0.y) * (r.point1.x - r.point0.x)

\* C18: for a pss triple whose two segments are parallel the circle is
\* rejected (circle_formation_predicate returns false) whenever the
\* discriminant of the quadratic in t is negative.
C18_ParallelRejected ==
    (pc = "formed" /\ out.tag \in {"pss1", "pss2", "pss3"}) =>
        LET l == PssArgs[1]
            m == PssArgs[2]
            r == PssArgs[3]
        IN  (Parallel(m, r) /\ Discriminant(l.point0, m.point1, m.point0, r.point0) < 0)
                => ~out.ret

(***************************************************************************)
(* Specification of the threshold: the sizes of the output float F1 and of *)
(* the float F2 of the computations, an error bound, then ulps() and the   *)
(* recompute flag it gates.                                                *)
(***************************************************************************)
FloatBytes == {4, 8}

InitUlps ==
    /\ pc = "input"
    /\ in \in FloatBytes \X FloatBytes \X (0 .. ULPSX2 + UlpSlack)
    /\ out = [kind |-> "none"]

\* in[1] the size of F1, in[2] the size of F2, in[3] the error bound
RecomputeGate ==
    /\ pc = "input"
    /\ out' = [kind |-> "ulps",
               ulps |-> ulps(in[2]),
               recompute |-> in[3] > ulps(in[2])]
    /\ pc' = "ulps"
    /\ in' = in

NextUlps == RecomputeGate

SpecUlps == InitUlps /\ [][NextUlps]_vars

\* C19 as stated: the threshold is chosen by the size of the output float: 64
\* when it is 32-bit and 128 when it is 64-bit, for every combination of the
\* type parameters (64 for F1 = f32, F2 = f64).
C19_ByOutputFloat ==
    pc = "ulps" => out.ulps = (IF in[1] = 4 THEN 64 ELSE 128)

\* C19 (amended): the threshold is chosen by the size of F2, the float of the
\* computations: 64 when F2 is 32-bit and 128 when it is 64-bit, whatever the
\* output float F1 (128 for F1 = f32, F2 = f64); an error bound gates the
\* exact fallback when it is above that value.
C19_ByComputationFloat ==
    pc = "ulps" =>
        /\ out.ulps = (IF in[2] = 4 THEN 64 ELSE 128)
        /\ out.recompute <=> in[3] > (IF in[2] = 4 THEN 64 ELSE 128)

\* a 32-bit output float with a 64-bit computation float: 128, and an error
\* bound of 100 does not gate
C19_Witness ==
    /\ pc = "ulps"
    /\ in[1] = 4 /\ in[2] = 8
    /\ out.ulps = 128
    /\ in[3] = 100
    /\ ~out.recompute

(***************************************************************************)
(* Specification of the rotations: three points, then eval_3 of the        *)
(* triple and of its two cyclic rotations.                                 *)
(***************************************************************************)
InitRotation ==
    /\ pc = "input"
    /\ in \in OrientPoints \X OrientPoints \X OrientPoints
    /\ out = [kind |-> "none"]

\* a debug build aborts in the call that overflows, a release build goes on
\* with the wrapped value
Eval3Rotations ==
    /\ pc = "input"
    /\ LET r1 == eval_3o(in[1], in[2], in[3])
           r2 == eval_3o(in[2], in[3], in[1])
           r3 == eval_3o(in[3], in[1], in[2])
           res(r, debug) == IF r.ovf /\ debug THEN "PANIC" ELSE r.val
       IN  \E debug \in BOOLEAN :
             out' = [kind |-> "rotations",
                     ovf |-> r1.ovf \/ r2.ovf \/ r3.ovf,
                     val |-> <<res(r1, debug), res(r2, debug), res(r3, debug)>>]
    /\ pc' = "rotations"
    /\ in' = in

NextRotation == Eval3Rotations

SpecRotation == InitRotation /\ [][NextRotation]_vars

\* C21: for all points p, q, r of I1, eval_3(p, q, r), eval_3(q, r, p) and
\* eval_3(r, p, q) are the same orientation: all LEFT, all RIGHT or all
\* COLLINEAR.
C21_CyclicRotation ==
    pc = "rotations" =>
        /\ out.val[1] \in {"LEFT", "RIGHT", "COLLINEAR"}
        /\ out.val[2] = out.val[1]
        /\ out.val[3] = out.val[1]

(***************************************************************************)
(* The cross product of four values of I1                                  *)
(***************************************************************************)
InI1(v) == MinI1 <= v /\ v <= MaxI1

\* two's complement wrap of a mathematical integer into I1
WrapI1(v) == ((v - MinI1) % Pow2(I1Bits)) + MinI1

is_neg(x) == x < 0

\* the argument as the call of i1_to_i2 gets it: negated in I1 when negative
NegatedIfNeg(x) == IF is_neg(x) THEN IV(WrapI1(-x), ~InI1(-x)) ELSE IV(x, FALSE)

\* the four values lose their sign before robust_cross_product_f looks at it
robust_cross_product(a1_, b1_, a2_, b2_) ==
    LET a1 == NegatedIfNeg(a1_)
        b1 == NegatedIfNeg(b1_)
        a2 == NegatedIfNeg(a2_)
        b2 == NegatedIfNeg(b2_)
    IN  robust_cross_product_f(a1, b1, a2, b2)

(***************************************************************************)
(* Specification of the cross product: four values of I1, then             *)
(* robust_cross_product, and robust_cross_product_2i of the widened        *)
(* values.                                                                 *)
(***************************************************************************)
InitCross ==
    /\ pc = "input"
    /\ in \in OrientCoords \X OrientCoords \X OrientCoords \X OrientCoords
    /\ out = [kind |-> "none"]

\* a debug build aborts on overflow, a release build goes on with the wrapped value
CrossProduct ==
    /\ pc = "input"
    /\ LET v == robust_cross_product(in[1], in[2], in[3], in[4])
           w == robust_cross_product_2i(i1_to_i2(in[1]), i1_to_i2(in[2]),
                                        i1_to_i2(in[3]), i1_to_i2(in[4]))
       IN  \E debug \in BOOLEAN :
             out' = [kind |-> "cross",
                     panic |-> v.o /\ debug,
                     ovf |-> v.o,
                     val |-> [neg |-> v.neg, mag |-> v.mag],
                     wide |-> [neg |-> w.neg, mag |-> w.mag, o |-> w.o]]
    /\ pc' = "cross"
    /\ in' = in

NextCross == CrossProduct

SpecCross == InitCross /\ [][NextCross]_vars

\* C26: for all a1, b1, a2, b2 of I1, negative ones included,
\* robust_cross_product(a1, b1, a2, b2) returns the signed value
\* a1 * b2 - b1 * a2, the value robust_cross_product_2i returns for the same
\* four values widened to I2.
C26_SignedCrossProduct ==
    pc = "cross" =>
        LET d == in[1] * in[4] - in[2] * in[3]
        IN  /\ ~out.panic
            /\ out.val.mag = (IF d < 0 THEN -d ELSE d)
            /\ d # 0 => out.val.neg = (d < 0)
            /\ d # 0 => out.val = [neg |-> out.wide.neg, mag |-> out.wide.mag]

(***************************************************************************)
(* Specification of the integer steps of the core: three points of I1,     *)
(* then one of the routines that compute on them in I1 or I2: the          *)
(* orientation test, the cross product of the end points of a segment      *)
(* (lazy sss), and the cross product of a segment with the negated y of a  *)
(* point (lazy pss).                                                       *)
(***************************************************************************)
InitCore ==
    /\ pc = "input"
    /\ in \in OrientPoints \X OrientPoints \X OrientPoints
    /\ out = [kind |-> "none"]

\* c1 of lazy sss for the segment from in[1] to in[2]
SegmentCross ==
    /\ pc = "input"
    /\ LET v == robust_cross_product(in[1].x, in[1].y, in[2].x, in[2].y)
       IN  \E debug \in BOOLEAN :
             out' = [kind |-> "sss_c1", panic |-> v.o /\ debug, ovf |-> v.o]
    /\ pc' = "sss_c1"
    /\ in' = in

\* the cross product of lazy pss for the point in[1] and the segment from
\* in[2] to in[3]: site1.y() is negated in I1 before it is widened
PointSegmentCross ==
    /\ pc = "input"
    /\ LET neg_y == IV(WrapI1(-in[1].y), ~InI1(-in[1].y))
           v == robust_cross_product_2i(SubI2(i1_to_i2(in[3].x), i1_to_i2(in[2].x)),
                                        SubI2(i1_to_i2(in[3].y), i1_to_i2(in[2].y)),
                                        neg_y,
                                        i1_to_i2(in[1].x))
       IN  \E debug \in BOOLEAN :
             out' = [kind |-> "pss_b", panic |-> v.o /\ debug, ovf |-> v.o]
    /\ pc' = "pss_b"
    /\ in' = in

NextCore ==
    \/ Eval3
    \/ SegmentCross
    \/ PointSegmentCross

SpecCore == InitCore /\ [][NextCore]_vars

\* C22: for all points of I1, the minimum value and degenerate triples
\* included, no routine aborts: not by an overflow of I1 or I2, not by the
\* negation of the minimum value, not by a failed cast.
C22_NeverPanics ==
    pc # "input" => ~out.panic

(***************************************************************************)
(* Specification of a segment site: two points and an index, then new_3    *)
(* and calls of inverse().                                                 *)
(***************************************************************************)
InitSite ==
    /\ pc = "input"
    /\ in \in XYPoints \X XYPoints \X (0 .. 1)
    /\ out = [kind |-> "none"]

New3 ==
    /\ pc = "input"
    /\ out' = [kind |-> "site", site |-> new_3(in[1], in[2], in[3]), calls |-> 0]
    /\ pc' = "site"
    /\ in' = in

Inverse ==
    /\ pc = "site"
    /\ out.calls < MaxInverse
    /\ out' = [out EXCEPT !.site = inverse(out.site), !.calls = out.calls + 1]
    /\ pc' = pc
    /\ in' = in

NextSite ==
    \/ New3
    \/ Inverse

SpecSite == InitSite /\ [][NextSite]_vars

\* C25: the site made by new_3(a, b, index) is not inverse and has point0 = a
\* and point1 = b; every call of inverse() toggles is_inverse and swaps the
\* two end points, so after an even number of calls the site has the end
\* points and the flag it was made with, after an odd number the end points
\* swapped and is_inverse true.
C25_InverseTwice ==
    pc = "site" =>
        LET even == out.calls % 2 = 0
        IN  /\ is_inverse(out.site) = ~even
            /\ point0(out.site) = (IF even THEN in[1] ELSE in[2])
            /\ point1(out.site) = (IF even THEN in[2] ELSE in[1])
            /\ x0(out.site) = (IF even THEN in[1].x ELSE in[2].x)
            /\ y1(out.site) = (IF even THEN in[2].y ELSE in[1].y)

\* C25, step by step: every call of inverse() toggles the flag and swaps the
\* end points
C25_InverseStep ==
    [][(pc = "site" /\ pc' = "site") =>
          /\ is_inverse(out'.site) = ~is_inverse(out.site)
          /\ point0(out'.site) = point1(out.site)
          /\ point1(out'.site) = point0(out.site)]_vars

\* a segment inverted twice: the end points and the flag of new_3 again
C25_Witness ==
    /\ pc = "site"
    /\ out.calls = 2
    /\ in[1] # in[2]
    /\ out.site = new_3(in[1], in[2], in[3])
    /\ ~is_inverse(out.site)

\* the pair the triple selects: the routine, the sites in the order of the
\* call and the index
Selected(s1, s2, s3) ==
    LET p(t) == t.point0 = t.point1
    IN  IF p(s1) /\ p(s2) /\ p(s3) THEN <<"ppp", <<s1, s2, s3>>, 0>>
        ELSE IF p(s1) /\ p(s2) THEN <<"pps", <<s1, s2, s3>>, 3>>
        ELSE IF p(s1) /\ p(s3) THEN <<"pps", <<s1, s3, s2>>, 2>>
        ELSE IF p(s2) /\ p(s3) THEN <<"pps", <<s2, s3, s1>>, 1>>
        ELSE IF p(s1) THEN <<"pss", <<s1, s2, s3>>, 1>>
        ELSE IF p(s2) THEN <<"pss", <<s2, s1, s3>>, 2>>
        ELSE IF p(s3) THEN <<"pss", <<s3, s1, s2>>, 3>>
        ELSE <<"sss", <<s1, s2, s3>>, 0>>

\* C27: circle_formation_predicate(s1, s2, s3, circle) calls exactly one
\* existence predicate, and after it at most the lazy formation of the same
\* name, with the point sites first and the index of the odd one out:
\* (p,p,p) ppp(s1,s2,s3); (p,p,s) pps(s1,s2,s3,3); (p,s,p) pps(s1,s3,s2,2);
\* (s,p,p) pps(s2,s3,s1,1); (p,s,s) pss(s1,s2,s3,1); (s,p,s) pss(s2,s1,s3,2);
\* (s,s,p) pss(s3,s1,s2,3); (s,s,s) sss(s1,s2,s3); the lazy formation gets
\* the sites and the index the existence predicate got.
C27_Dispatch ==
    pc = "formed" =>
        LET sel == Selected(in[1], in[2], in[3])
        IN  /\ Len(out.calls) \in {1, 2}
            /\ out.calls[1].functor = "CircleExistencePredicate"
            /\ out.calls[1].fn = sel[1]
            /\ out.calls[1].sites = sel[2]
            /\ out.calls[1].index = sel[3]
            /\ Len(out.calls) = 2 <=> out.run
            /\ Len(out.calls) = 2 =>
                 /\ out.calls[2].functor = "LazyCircleFormationFunctor"
                 /\ out.calls[2].fn = out.calls[1].fn
                 /\ out.calls[2].sites = out.calls[1].sites
                 /\ out.calls[2].index = out.calls[1].index

\* (point, segment, point): the segment is passed last, with index 2, to the
\* existence predicate and to the lazy formation
C27_Witness ==
    /\ pc = "formed"
    /\ ~IsSeg(in[1]) /\ IsSeg(in[2]) /\ ~IsSeg(in[3])
    /\ in[1] # in[3]
    /\ Len(out.calls) = 2
    /\ out.calls[2].fn = "pps"
    /\ out.calls[2].sites = <<in[1], in[3], in[2]>>
    /\ out.calls[2].index = 2

\* C28: when circle_formation_predicate returns false because the existence
\* predicate refused the triple, the circle event has the x, y and lower_x
\* it came with; it is written only after the existence predicate accepted.
C28_RefusedUnchanged ==
    pc = "formed" =>
        /\ ~out.exists => (~out.ret /\ out.circle = NewCircle /\ out.lazy_c = NewCircle)
        /\ out.circle # NewCircle => (out.exists /\ Len(out.calls) = 2)

\* a refused triple whose lazy values and error bounds would have been
\* written and recomputed
C28_Witness ==
    /\ pc = "formed"
    /\ ~out.exists
    /\ ~out.ret
    /\ in[4].ulp.x > ulps(F2Bytes)
    /\ in[4].lazy # NewCircle
    /\ out.circle = NewCircle

(***************************************************************************)
(* Specification of ps: a point site, a segment site, the new point, the   *)
(* reverse_order flag and the outcome of a comparison of two distances     *)
(* too close to tell, then fast_ps and ps.                                 *)
(***************************************************************************)
InitPs ==
    /\ pc = "input"
    /\ in \in {s \in DistSites : ~is_segment(s)} \X {s \in DistSites : is_segment(s)}
              \X DistPoints \X BOOLEAN \X BOOLEAN
    /\ out = [kind |-> "none"]

PointSegment ==
    /\ pc = "input"
    /\ out' = [kind |-> "ps",
               fast |-> fast_ps(in[1], in[2], in[3], in[4]),
               dist_less |-> FLess(find_distance_to_point_arc(in[1], in[3]),
                                   find_distance_to_segment_arc(in[2], in[3]), in[5]),
               val |-> ps(in[1], in[2], in[3], in[4], in[5])]
    /\ pc' = "ps"
    /\ in' = in

NextPs == PointSegment

SpecPs == InitPs /\ [][NextPs]_vars

\* C29: in ps(point, segment, K, reverse_order), if the orientation of
\* (segment.p0, segment.p1, K) is not RIGHT the result is true exactly when
\* the segment site is not inverse, whatever reverse_order; otherwise fast_ps
\* returns LESS only with reverse_order true and MORE only with reverse_order
\* false, so that ps returns reverse_order for a defined fast result, and
\* only an UNDEFINED fast result gives
\* reverse_order XOR (dist_point_arc < dist_segment_arc).
C29_PsFastResult ==
    pc = "ps" =>
        IF SignName(Det(in[2].point0, in[2].point1, in[3])) # "RIGHT"
        THEN /\ out.val = ~in[2].is_inverse
             /\ out.fast # "UNDEFINED"
        ELSE /\ out.fast = "LESS" => in[4]
             /\ out.fast = "MORE" => ~in[4]
             /\ out.fast # "UNDEFINED" => out.val = in[4]
             /\ out.fast = "UNDEFINED" => out.val = Xor(in[4], out.dist_less)

\* K right of a segment that is not vertical, a defined fast result MORE
\* without reverse_order: false
C29_Witness ==
    /\ pc = "ps"
    /\ SignName(Det(in[2].point0, in[2].point1, in[3])) = "RIGHT"
    /\ in[2].point0.x # in[2].point1.x
    /\ out.fast = "MORE"
    /\ ~in[4]
    /\ ~out.val

(***************************************************************************)
(* End points (src/src/end_point.rs): a point and the index of a beach     *)
(* line node, ordered by the point alone.                                  *)
(***************************************************************************)
new_2(first, second) == [site |-> first, beachline_index |-> second]

\* mutant: the smaller point is the smaller end point
cmp_m1(self, other) ==
    IF point_comparison_predicate(self.site, other.site) THEN "Less"
    ELSE IF self.site = other.site THEN "Equal"
    ELSE "Greater"

cmp(self, other) ==
    IF point_comparison_predicate(self.site, other.site) THEN "Greater"
    ELSE IF self.site = other.site THEN "Equal"
    ELSE "Less"

eq(self, other) == self.site = other.site

\* the greater of two end points under cmp, the second when they are equal
max(v1, v2) == IF cmp(v1, v2) = "Greater" THEN v1 ELSE v2

(***************************************************************************)
(* Specification of the end point order: three end points, then their      *)
(* comparisons and their maximum.                                          *)
(***************************************************************************)
EndPointPairs == {new_2(p, i) : p \in XYPoints, i \in 0 .. 1}

InitEndPoint ==
    /\ pc = "input"
    /\ in \in EndPointPairs \X EndPointPairs \X EndPointPairs
    /\ out = [kind |-> "none"]

EndPointCompare ==
    /\ pc = "input"
    /\ out' = [kind |-> "cmp",
               ab |-> cmp(in[1], in[2]),
               ba |-> cmp(in[2], in[1]),
               bc |-> cmp(in[2], in[3]),
               ac |-> cmp(in[1], in[3]),
               eq_ab |-> eq(in[1], in[2]),
               max |-> max(max(in[1], in[2]), in[3])]
    /\ pc' = "cmp"
    /\ in' = in

NextEndPoint == EndPointCompare

SpecEndPoint == InitEndPoint /\ [][NextEndPoint]_vars

\* p before q in the point order: by x, then by y
PointBefore(p, q) == p.x < q.x \/ (p.x = q.x /\ p.y < q.y)

ReverseOrdering(o) == IF o = "Less" THEN "Greater" ELSE IF o = "Greater" THEN "Less" ELSE o

\* C30: cmp(a, b) of two end points is Greater iff a.site is before b.site
\* in the point order, Equal iff the sites are equal and Less otherwise,
\* whatever the beachline_index; cmp(a, b) is the reverse of cmp(b, a), cmp
\* is transitive, a == b holds exactly when cmp(a, b) is Equal, and the
\* maximum of a collection is an end point with the smallest point.
C30_ReversePointOrder ==
    pc = "cmp" =>
        /\ out.ab = "Greater" <=> PointBefore(in[1].site, in[2].site)
        /\ out.ab = "Equal" <=> in[1].site = in[2].site
        /\ out.ab = "Less" <=> PointBefore(in[2].site, in[1].site)
        /\ out.ab = ReverseOrdering(out.ba)
        /\ out.ab = out.bc => out.ac = out.ab
        /\ out.eq_ab <=> out.ab = "Equal"
        /\ \A i \in 1 .. 3 : ~PointBefore(in[i].site, out.max.site)
        /\ \E i \in 1 .. 3 : out.max = in[i]

\* three end points, two of them at one point with different beach line
\* indexes, the first at a smaller point: it is the maximum
C30_Witness ==
    /\ pc = "cmp"
    /\ PointBefore(in[1].site, in[2].site)
    /\ in[2].site = in[3].site
    /\ in[2].beachline_index # in[3].beachline_index
    /\ out.ab = "Greater"
    /\ out.bc = "Equal"
    /\ out.max = in[1]

====
